---- MODULE Spec2Model ----
(***************************************************************************)
(* The netcanv matchmaker (netcanv-matchmaker/src/main.rs): the room       *)
(* registry behind one mutex, one handler thread per accepted connection,  *)
(* and the relay fan-out.                                                  *)
(*                                                                         *)
(* A connection is identified by its address (1..NumConns); an address is  *)
(* used by one connection only.  A handler thread is modelled step by      *)
(* step: the step that reads a packet also takes the matchmaker mutex and  *)
(* runs the handler up to its first network write (everything in between   *)
(* is local to the thread or protected by the mutex); every write is a     *)
(* step of its own.  When a handler returns or its thread ends, its frame  *)
(* stays visible for one step (Unwind) that runs before any other thread.  *)
(***************************************************************************)
EXTENDS Integers, Sequences, FiniteSets, TLC

\* ---------------------------------------------------------------- bounds
\* NumConns connections; room ids 0..MAX_ROOM_ID (scaled down from 9999); at most
\* MaxClients entries in a room's member list; at most MaxOps packets and
\* closes from the peers in a run of Spec, MaxRelayOps in a run of SpecRelay,
\* MaxFanoutOps in a run of SpecFanout.
NumConns == 3
MAX_ROOM_ID == 1
MaxClients == 3
MaxOps == 3
MaxRelayOps == 1
MaxFanoutOps == 2
MaxOrderOps == 2
MaxE2EOps == 5
MaxPeerIds == 2
MaxWhrcOps == 4
NumMates == 2
MaxPeerOps == 3
NumChunks == 2
MaxPaintPackets == 2
MaxFrames == 2
MaxReuseOps == 3
MaxLockOps == 2

Conns == 1..NumConns
RoomIds == 0..MAX_ROOM_ID
None == 0
NoRoom == -1
Payloads == {"hi"}
\* Payloads that tell the frames of a run apart: the k-th frame the peers send
\* in a run of SpecOrder carries Stamps[k].
Stamps == <<"p1", "p2", "p3", "p4", "p5">>
StampNo(d) == CHOOSE k \in 1..Len(Stamps) : Stamps[k] = d
Empty == ""

\* ---------------------------------------------------------------- packets
ErrNoFreeRooms == "Could not find any more free rooms. Try again"
ErrNoRoomFound == "No room found with the given ID. Check whether you spelled the ID correctly"
ErrHostDisconnected == "The host seems to have disconnected"
ErrNotRelayClient == "Only relay clients may send Relay packets"

\* Tags of Packet that incoming_packet has no handler for.
InvalidTags ==
  {"RoomId", "HostAddress", "ClientAddress", "Relayed", "Disconnected", "Error",
   "WallhackDHostWithCustomRoomId"}

\* A packet: tag t, an address or room id a, a payload or message d.
Pkt(t, a, d) == [t |-> t, a |-> a, d |-> d]
NoPkt == Pkt("", None, Empty)
NoLoc == [id |-> NoRoom, host |-> None, clients |-> <<>>, i |-> 0]
\* Addresses of the other peers of a room, and the nicknames they may carry.
Mates == 1..NumMates
Nicks == {"ann", "bob"}
OwnNick == "[tWHD!] me"
\* A packet of the relay server: Error(e) or RoomCreated(room_id, peer_id).
WhrcPkt(t, room_id, peer_id, e) == [t |-> t, room_id |-> room_id, peer_id |-> peer_id, e |-> e]
\* The last request of the relay server and its answer, and "no request yet".
NoCall == [address |-> None, room_id |-> NoRoom, reply |-> WhrcPkt("", NoRoom, None, Empty)]
\* A Message of the Peer (tag, nickname or text, address), and Option::None.
Msg(t, n, a) == [t |-> t, n |-> n, a |-> a]
NoMsg == Msg("", Empty, None)
\* State.error: None.
NoError == ""
\* What paint_canvas.save last wrote, and the chunk sets at that moment.
Save(n, srv, dl, cv) == [n |-> n, server |-> srv, downloaded |-> dl, canvas |-> cv]
NoSave == Save(0, {}, {}, {})
\* A packet the Peer takes from try_recv: the matchmaker tag t with its address
\* or room id a and, for Relayed, the client packet k with its content n.
Rcv(t, a, k, n) == [t |-> t, a |-> a, k |-> k, n |-> n]
NoRcv == Rcv("", None, "", Empty)
\* Chunk positions on a canvas, and the packets and Messages that carry a set
\* of them.
Positions == 1..NumChunks
ChunkRcv(a, k, ps) == [t |-> "Relayed", a |-> a, k |-> k, n |-> Empty, ps |-> ps]
ChunkMsg(t, a, ps) == [t |-> t, n |-> Empty, a |-> a, ps |-> ps]

VARIABLES
  thread,        \* per connection: "run", "closed", "stopped", "panic"; "unborn" before
                 \* the thread is spawned, "killed" when the process has ended
  sock,          \* per connection: "open" or "closed" (the peer's end)
  wsPoisoned,    \* per connection: BufStream.websocket is poisoned
  wire,          \* per connection: the stamped Relayed packets written to it, in order
  rooms,         \* Matchmaker.rooms: room id -> [host, clients]
  host_rooms,    \* Matchmaker.host_rooms: address -> room id
  relay_clients, \* Matchmaker.relay_clients: address -> room id
  mmOwner,       \* the connection whose thread holds the matchmaker mutex
  mmPoisoned,    \* the matchmaker mutex is poisoned
  pc,            \* per connection: the handler thread's position
  cur,           \* per connection: the packet being handled
  loc,           \* per connection: the handler's room snapshot and loop index
  out,           \* per connection: the writes the current handler completed
  issued,        \* room id -> RoomId answers carrying it since the last disconnect
  discCalls,     \* per connection: calls of Matchmaker::disconnect
  left,          \* packets and closes the peers may still send (the budget of a run)
  \* the relay server's State (netcanv-relay)
  whrc_peers,        \* state.peers: the addresses holding the peer ids 1..Len, in order of allocation
  occupied_room_ids, \* state.rooms.occupied_room_ids
  room_clients,      \* state.rooms.room_clients: room id -> peer ids
  room_hosts,        \* state.rooms: room id -> the host's peer id
  whrc_last,         \* the last custom-id request and the packet it was answered with
  whrc_calls,        \* custom-id requests handled
  \* one client's Peer (src/net/peer.rs)
  is_host,       \* Peer.is_host
  is_relayed,    \* Peer.is_relayed
  peer_room_id,  \* Peer.room_id
  peer_host,     \* Peer.host
  mates,         \* Peer.mates: address -> nickname
  link,          \* the matchmaker Remote: "up", or "down" once a send has failed
  recv,          \* the packet the last next_packet took from try_recv
  sent,          \* the packets the last next_packet sent, in order
  message,       \* what the last next_packet returned
  greeted,       \* addresses a Hello or HiThere was decoded from since their last Disconnected
  peer_left,     \* packets the matchmaker may still deliver to the peer
  paint,         \* the client's paint State (src/app/paint.rs), a record of its fields
  acceptor,      \* the matchmaker's main thread: the accept loop and the connections it has seen
  lk,            \* the matchmaker's mutexes: who holds and who waits for which
  dice,          \* one call of find_free_room_id: its loop and what it returned
  joiner         \* a second client, joining the room of the first, and its broker connection

whrcVars == <<whrc_peers, occupied_room_ids, room_clients, room_hosts, whrc_last, whrc_calls>>
peerVars == <<is_host, is_relayed, peer_room_id, peer_host, mates, link, recv, sent, message,
              greeted, peer_left>>
\* The relay server and the client are other processes than the matchmaker.
appVars == <<paint, acceptor, lk, dice, joiner>>
ext == <<whrcVars, peerVars, appVars>>
mmVars == <<thread, sock, wsPoisoned, wire, rooms, host_rooms, relay_clients, mmOwner,
            mmPoisoned, pc, cur, loc, out, issued, discCalls, left>>

vars == <<mmVars, ext>>

registry == <<rooms, host_rooms, relay_clients>>

\* ---------------------------------------------------------------- helpers
Range(s) == {s[i] : i \in 1..Len(s)}
MapPut(m, k, v) == [x \in DOMAIN m \cup {k} |-> IF x = k THEN v ELSE m[x]]
MapDel(m, k) == [x \in DOMAIN m \ {k} |-> m[x]]
EmptyMap == [x \in {} |-> 0]
SeqsUpTo(S, n) == UNION {[1..k -> S] : k \in 0..n}

\* State::new (paint.rs 1205-1230): the paint State as constructed, before its
\* first frame; pc is the position inside process(), app the AppState shown,
\* yielded the messages the frame's iterator returned, handled those taken off
\* the deferred queue,
\* asked the position lists of the GetChunks packets handed to the Remote,
\* floor the value peer_left has when the packets that were in the receive
\* queue at the frame's tick() have all been taken.
NewPaint ==
  [server_side_chunks |-> {}, requested_chunks |-> {}, downloaded_chunks |-> {},
   needed_chunks |-> {}, deferred_message_queue |-> <<>>, save_to_file |-> FALSE,
   error |-> NoError, canvas |-> {}, pc |-> "idle", app |-> "paint", lobby |-> NoError,
   seen |-> 0, out |-> <<>>, yielded |-> <<>>, handled |-> <<>>, saved |-> NoSave,
   asked |-> <<>>, left |-> 0, floor |-> 0]

\* The accept loop before the first connection arrives: main waits in
\* listener.incoming() (pc), cur is the connection it is handling, conn says how
\* far each connection has come, hs what its peer has sent of the WebSocket
\* handshake, backlog holds the connections established and not yet accepted.
NewAcceptor ==
  [pc |-> "incoming", cur |-> None, conn |-> [c \in Conns |-> "away"],
   hs |-> [c \in Conns |-> "none"], backlog |-> <<>>]

\* No mutex is held and every handler thread waits in peek: prog is what a
\* thread has still to do with the mutexes in the operation it is in, held the
\* mutexes it holds, ended whether its loop is over, left the operations the
\* peers may still cause.
NewLocks ==
  [prog |-> [c \in Conns |-> <<>>], held |-> [c \in Conns |-> {}],
   ended |-> [c \in Conns |-> FALSE], left |-> 0]

\* No call of find_free_room_id is in progress: i is the value the range
\* iterator yields next, draws the calls of gen_range made, result what the
\* call returned (NoRoom is None).
NewDice == [pc |-> "idle", i |-> 0, draws |-> 0, result |-> NoRoom]

\* A second client that has sent GetHost for the first client's room and
\* waits for the answer: pc is how far its Peer has come, wire the packets it
\* has handed to its Remote and the broker has not handled yet, bound whether
\* add_relay has put it into the room, acks the acknowledgements the broker
\* has written to it and it has not taken, hellos the Relayed Hello packets of
\* it the broker has written to the first client.
NewJoiner == [pc |-> "away", wire |-> <<>>, bound |-> FALSE, acks |-> 0, hellos |-> 0]

InitApp ==
  /\ paint = NewPaint
  /\ acceptor = NewAcceptor
  /\ lk = NewLocks
  /\ dice = NewDice
  /\ joiner = NewJoiner

\* A relay server that has handled no request.
InitWhrc ==
  /\ whrc_peers = <<>>
  /\ occupied_room_ids = {}
  /\ room_clients = EmptyMap
  /\ room_hosts = EmptyMap
  /\ whrc_last = NoCall
  /\ whrc_calls = 0

\* Peer::host (h) and Peer::join (~h): the Peer as constructed.
NewPeer(h) ==
  /\ is_host = h
  /\ is_relayed = FALSE
  /\ peer_room_id = NoRoom
  /\ peer_host = None
  /\ mates = EmptyMap
  /\ link = "up"
  /\ recv = NoRcv
  /\ sent = <<>>
  /\ message = NoMsg
  /\ greeted = {}
  /\ peer_left = MaxPeerOps

\* The matchmaker after main() has bound its listener.
InitMatchmaker ==
  /\ thread = [c \in Conns |-> "run"]
  /\ sock = [c \in Conns |-> "open"]
  /\ wsPoisoned = [c \in Conns |-> FALSE]
  /\ wire = [c \in Conns |-> <<>>]
  /\ rooms = EmptyMap
  /\ host_rooms = EmptyMap
  /\ relay_clients = EmptyMap
  /\ mmOwner = None
  /\ mmPoisoned = FALSE
  /\ pc = [c \in Conns |-> "read"]
  /\ cur = [c \in Conns |-> NoPkt]
  /\ loc = [c \in Conns |-> NoLoc]
  /\ out = [c \in Conns |-> <<>>]
  /\ issued = [id \in RoomIds |-> 0]
  /\ discCalls = [c \in Conns |-> 0]
  /\ left = MaxOps

Init == InitMatchmaker /\ InitWhrc /\ NewPeer(FALSE) /\ InitApp

\* ---------------------------------------------------------------- liveness of a BufStream
\* Weak::upgrade succeeds while a strong reference exists: the handler thread's
\* own Arc, Room.host of a room in the registry, or Room.host of a room cloned
\* by a relay fan-out in progress.
Alive_inverted(d) ==
  ~(\/ thread[d] = "run"
    \/ \E r \in DOMAIN rooms : rooms[r].host = d
    \/ \E c \in Conns : pc[c] \in {"relay_retain", "relay_loop"} /\ loc[c].host = d)

Alive(d) ==
  \/ thread[d] = "run"
  \/ \E r \in DOMAIN rooms : rooms[r].host = d
  \/ \E c \in Conns : pc[c] \in {"relay_retain", "relay_loop"} /\ loc[c].host = d

\* ---------------------------------------------------------------- control
\* The handler of c moves to l; own says whether it holds the matchmaker mutex there.
Goto(c, l, own) ==
  /\ pc' = [pc EXCEPT ![c] = l]
  /\ mmOwner' = IF own THEN c ELSE IF mmOwner = c THEN None ELSE mmOwner
  /\ UNCHANGED <<thread, mmPoisoned>>

\* The thread of c ends: its guards are dropped.
Exit(c, how) ==
  /\ pc' = [pc EXCEPT ![c] = "exit"]
  /\ thread' = [thread EXCEPT ![c] = how]
  /\ mmOwner' = IF mmOwner = c THEN None ELSE mmOwner
  /\ UNCHANGED mmPoisoned

\* The thread of c panics: a mutex it holds is poisoned.
Die(c) ==
  /\ pc' = [pc EXCEPT ![c] = "exit"]
  /\ thread' = [thread EXCEPT ![c] = "panic"]
  /\ mmOwner' = IF mmOwner = c THEN None ELSE mmOwner
  /\ mmPoisoned' = (mmPoisoned \/ mmOwner = c)

\* ---------------------------------------------------------------- send_packet
\* The outcomes of send_packet(stream of d, packet with tag t): "err" is the Err
\* of stream.peer_addr()? in the log line (not evaluated for Relayed), "panic"
\* is the unwrap of a poisoned websocket mutex or of a failed write_message.
\* A write to a socket the peer has closed may succeed (buffered) or fail.
WriteOutcomes(d, t) ==
  (IF t # "Relayed" /\ sock[d] = "closed" THEN {"err"} ELSE {})
  \cup (IF wsPoisoned[d] THEN {"panic"}
        ELSE IF sock[d] = "open" THEN {"ok"} ELSE {"ok", "panic"})

\* write_message: the frame goes on the connection's stream behind the frames
\* written before it.
Transmit_front(w, f) == <<f>> \o w

Transmit(w, f) == Append(w, f)

\* The effect of send_packet by the handler of c to d with outcome o.
send_packet(c, d, p, o) ==
  /\ out' = IF o = "ok"
            THEN [out EXCEPT ![c] = Append(@, [to |-> d, pkt |-> p, mm |-> (mmOwner = c)])]
            ELSE out
  /\ wsPoisoned' = IF o = "panic" THEN [wsPoisoned EXCEPT ![d] = TRUE] ELSE wsPoisoned
  /\ wire' = IF o = "ok" /\ p.t = "Relayed" /\ p.d \in Range(Stamps)
             THEN [wire EXCEPT ![d] = Transmit(@, [from |-> p.a, d |-> p.d])]
             ELSE wire

\* ---------------------------------------------------------------- the read loop
\* Some handler's frame is being dropped.
Unwinding == \E c \in Conns : pc[c] \in {"ret", "exit"}
\* The thread of c is scheduled.
Running(c) == ~Unwinding /\ thread[c] = "run"
\* The handler of c is blocked in peek at the top of its loop.
AtRead(c) == Running(c) /\ pc[c] = "read"
\* read_message returns the next frame the peer of c has sent.
GetPacket(c) ==
  /\ AtRead(c)
  /\ sock[c] = "open"
  /\ left > 0
  /\ left' = left - 1
\* mm.lock() returns: no other thread holds the matchmaker mutex.
CanLock == mmOwner = None

\* The handler starts on packet p: the previous handler's locals are gone.
Begin(c, p, l) ==
  /\ cur' = [cur EXCEPT ![c] = p]
  /\ loc' = [loc EXCEPT ![c] = l]
  /\ out' = [out EXCEPT ![c] = <<>>]

\* The peer closes its end of the connection.
PeerClose(c) ==
  /\ ~Unwinding
  /\ sock[c] = "open"
  /\ left > 0
  /\ left' = left - 1
  /\ sock' = [sock EXCEPT ![c] = "closed"]
  /\ UNCHANGED <<ext, thread, wsPoisoned, wire, registry, mmOwner, mmPoisoned, pc, cur, loc, out,
                 issued, discCalls>>

\* The handler's frame is dropped: the loop iterates after a return, and the
\* thread is gone after an exit or a panic.
Unwind(c) ==
  /\ pc[c] \in {"ret", "exit"}
  /\ pc' = [pc EXCEPT ![c] = IF pc[c] = "ret" THEN "read" ELSE "end"]
  /\ cur' = [cur EXCEPT ![c] = NoPkt]
  /\ loc' = [loc EXCEPT ![c] = NoLoc]
  /\ out' = [out EXCEPT ![c] = <<>>]
  /\ UNCHANGED <<ext, thread, sock, wsPoisoned, wire, registry, mmOwner, mmPoisoned, issued, discCalls, left>>

\* bincode::deserialize fails: running = false, and the loop ends.
ReadMalformed(c) ==
  /\ GetPacket(c)
  /\ Begin(c, Pkt("malformed", None, Empty), NoLoc)
  /\ Exit(c, "stopped")
  /\ UNCHANGED <<ext, sock, wsPoisoned, wire, registry, issued, discCalls>>

\* incoming_packet: a tag without a handler is Err(InvalidPacket), which the
\* loop logs; running is not changed.
ReadInvalid(c, t) ==
  /\ GetPacket(c)
  /\ Begin(c, Pkt(t, None, Empty), NoLoc)
  /\ Goto(c, "ret", FALSE)
  /\ UNCHANGED <<ext, sock, wsPoisoned, wire, registry, issued, discCalls>>

\* peek fails on a connection the peer has reset, and read_message().unwrap() panics.
ReadReset(c) ==
  /\ AtRead(c)
  /\ sock[c] = "closed"
  /\ Begin(c, Pkt("reset", None, Empty), NoLoc)
  /\ Die(c)
  /\ UNCHANGED <<ext, sock, wsPoisoned, wire, registry, issued, discCalls, left>>

\* mm.lock().unwrap() on a poisoned matchmaker mutex panics in the handler of
\* packet p.
LockPanics(c, p) ==
  /\ Begin(c, p, NoLoc)
  /\ Die(c)
  /\ UNCHANGED <<registry, issued, discCalls>>

\* One send_error call, made with the matchmaker guard still in scope.
ErrorAt ==
  [host_err |-> ErrNoFreeRooms, join_err |-> ErrNoRoomFound,
   add_relay_err |-> ErrHostDisconnected, relay_err_client |-> ErrNotRelayClient,
   relay_err_room |-> ErrHostDisconnected]

SendError_closing(c) ==
  /\ Running(c)
  /\ pc[c] \in DOMAIN ErrorAt
  /\ \E o \in WriteOutcomes(c, "Error") :
       /\ send_packet(c, c, Pkt("Error", None, ErrorAt[pc[c]]), o)
       /\ IF o = "panic" THEN Die(c) ELSE Exit(c, "stopped")
  /\ UNCHANGED <<ext, sock, registry, cur, loc, issued, discCalls, left>>

SendError(c) ==
  /\ Running(c)
  /\ pc[c] \in DOMAIN ErrorAt
  /\ \E o \in WriteOutcomes(c, "Error") :
       /\ send_packet(c, c, Pkt("Error", None, ErrorAt[pc[c]]), o)
       /\ IF o = "panic" THEN Die(c) ELSE Goto(c, "ret", FALSE)
  /\ UNCHANGED <<ext, sock, registry, cur, loc, issued, discCalls, left>>

\* ---------------------------------------------------------------- host
\* The results find_free_room_id can return: an id that is not a key of rooms,
\* or None (NoRoom) when every draw hit an existing room, which takes at least
\* one room.
find_free_room_id_unchecked(rms) ==
  RoomIds \cup (IF DOMAIN rms # {} THEN {NoRoom} ELSE {})

find_free_room_id(rms) ==
  (RoomIds \ DOMAIN rms) \cup (IF DOMAIN rms # {} THEN {NoRoom} ELSE {})

\* Packet::Host is read; host() up to drop(mm), or up to send_error.
HostReq(c) ==
  /\ GetPacket(c)
  /\ CanLock
  /\ IF mmPoisoned THEN LockPanics(c, Pkt("Host", None, Empty)) ELSE
     \E id \in find_free_room_id(rooms) :
       IF id # NoRoom
       THEN /\ rooms' = MapPut(rooms, id, [host |-> c, clients |-> <<>>])
            /\ host_rooms' = MapPut(host_rooms, c, id)
            /\ Begin(c, Pkt("Host", None, Empty), [NoLoc EXCEPT !.id = id])
            /\ Goto(c, "host_send", FALSE)
       ELSE /\ UNCHANGED <<rooms, host_rooms>>
            /\ Begin(c, Pkt("Host", None, Empty), NoLoc)
            /\ Goto(c, "host_err", TRUE)
  /\ UNCHANGED <<ext, sock, wsPoisoned, wire, relay_clients, issued, discCalls>>

\* host(): send_packet(RoomId(room_id)) after drop(mm).
HostSend(c) ==
  /\ Running(c)
  /\ pc[c] = "host_send"
  /\ \E o \in WriteOutcomes(c, "RoomId") :
       /\ send_packet(c, c, Pkt("RoomId", loc[c].id, Empty), o)
       /\ issued' = IF o = "ok" THEN [issued EXCEPT ![loc[c].id] = @ + 1] ELSE issued
       /\ IF o = "panic" THEN Die(c) ELSE Goto(c, "ret", FALSE)
  /\ UNCHANGED <<ext, sock, registry, cur, loc, discCalls, left>>

\* ---------------------------------------------------------------- join
\* Packet::GetHost(id) is read; join() up to the room lookup.  The matchmaker
\* guard (and on success the room guard) lives to the end of the function.
JoinReq(c, id) ==
  /\ GetPacket(c)
  /\ CanLock
  /\ IF mmPoisoned THEN LockPanics(c, Pkt("GetHost", id, Empty)) ELSE
     IF id \in DOMAIN rooms
     THEN /\ Begin(c, Pkt("GetHost", id, Empty), [NoLoc EXCEPT !.id = id, !.host = rooms[id].host])
          /\ Goto(c, "join_host", TRUE)
     ELSE /\ Begin(c, Pkt("GetHost", id, Empty), NoLoc)
          /\ Goto(c, "join_err", TRUE)
  /\ UNCHANGED <<ext, sock, wsPoisoned, wire, registry, issued, discCalls>>

\* join(): stream.peer_addr()?, room.host.peer_addr()? and
\* send_packet(&room.host, ClientAddress(client_addr))?.
JoinHost(c) ==
  /\ Running(c)
  /\ pc[c] = "join_host"
  /\ \E o \in WriteOutcomes(loc[c].host, "ClientAddress")
              \cup (IF sock[c] = "closed" THEN {"err"} ELSE {}) :
       /\ send_packet(c, loc[c].host, Pkt("ClientAddress", c, Empty), o)
       /\ CASE o = "ok" -> Goto(c, "join_client", TRUE)
            [] o = "err" -> Goto(c, "ret", FALSE)
            [] o = "panic" -> Die(c)
  /\ UNCHANGED <<ext, sock, registry, cur, loc, issued, discCalls, left>>

\* join(): send_packet(stream, HostAddress(host_addr)), then the guards drop.
JoinClient_self(c) ==
  /\ Running(c)
  /\ pc[c] = "join_client"
  /\ \E o \in WriteOutcomes(c, "HostAddress") :
       /\ send_packet(c, c, Pkt("HostAddress", c, Empty), o)
       /\ IF o = "panic" THEN Die(c) ELSE Goto(c, "ret", FALSE)
  /\ UNCHANGED <<ext, sock, registry, cur, loc, issued, discCalls, left>>

JoinClient(c) ==
  /\ Running(c)
  /\ pc[c] = "join_client"
  /\ \E o \in WriteOutcomes(c, "HostAddress") :
       /\ send_packet(c, c, Pkt("HostAddress", loc[c].host, Empty), o)
       /\ IF o = "panic" THEN Die(c) ELSE Goto(c, "ret", FALSE)
  /\ UNCHANGED <<ext, sock, registry, cur, loc, issued, discCalls, left>>

\* ---------------------------------------------------------------- add_relay
\* Packet::RequestRelay(h) is read; add_relay() up to its first write.  The
\* matchmaker guard lives to the end of the function.
AddRelayReq(c, h) ==
  /\ GetPacket(c)
  /\ CanLock
  /\ LET host_addr == IF h = None THEN c ELSE h IN
     IF mmPoisoned THEN LockPanics(c, Pkt("RequestRelay", h, Empty)) ELSE
     IF host_addr \in DOMAIN host_rooms
     THEN LET room_id == host_rooms[host_addr] IN
          IF room_id \in DOMAIN rooms
          THEN /\ Len(rooms[room_id].clients) < MaxClients
               /\ relay_clients' = MapPut(relay_clients, c, room_id)
               /\ rooms' = [rooms EXCEPT ![room_id].clients = Append(@, c)]
               /\ Begin(c, Pkt("RequestRelay", h, Empty), [NoLoc EXCEPT !.id = room_id])
               /\ Goto(c, "add_relay_ack", TRUE)
          ELSE \* rooms.get_mut(&room_id).unwrap() panics under the guard
               /\ relay_clients' = MapPut(relay_clients, c, room_id)
               /\ UNCHANGED rooms
               /\ Begin(c, Pkt("RequestRelay", h, Empty), NoLoc)
               /\ pc' = [pc EXCEPT ![c] = "exit"]
               /\ thread' = [thread EXCEPT ![c] = "panic"]
               /\ mmPoisoned' = TRUE
               /\ UNCHANGED mmOwner
     ELSE /\ UNCHANGED <<rooms, relay_clients>>
          /\ Begin(c, Pkt("RequestRelay", h, Empty), NoLoc)
          /\ Goto(c, "add_relay_err", TRUE)
  /\ UNCHANGED <<ext, sock, wsPoisoned, wire, host_rooms, issued, discCalls>>

\* add_relay(): send_packet(Relayed(peer_addr, vec![])), then the guard drops.
AddRelayAck_none(c) ==
  /\ Running(c)
  /\ pc[c] = "add_relay_ack"
  /\ Goto(c, "ret", FALSE)
  /\ UNCHANGED <<ext, sock, wsPoisoned, wire, registry, cur, loc, out, issued, discCalls, left>>

AddRelayAck(c) ==
  /\ Running(c)
  /\ pc[c] = "add_relay_ack"
  /\ \E o \in WriteOutcomes(c, "Relayed") :
       /\ send_packet(c, c, Pkt("Relayed", c, Empty), o)
       /\ IF o = "panic" THEN Die(c) ELSE Goto(c, "ret", FALSE)
  /\ UNCHANGED <<ext, sock, registry, cur, loc, issued, discCalls, left>>

\* ---------------------------------------------------------------- relay
\* relay(): whether the fan-out loop sends to client: not the sender's own
\* stream (Arc::ptr_eq), and with a target only the client at that address.
RelaysTo_untargeted(client, origin, to) ==
  client # origin

RelaysTo(client, origin, to) ==
  client # origin /\ (to = None \/ client = to)

\* Packet::Relay(to, data) is read; relay() up to drop(mm), or up to send_error.
\* The fan-out works on a clone of the room, which holds the host's Arc.
RelayReq(c, to, data) ==
  /\ GetPacket(c)
  /\ CanLock
  /\ IF mmPoisoned THEN LockPanics(c, Pkt("Relay", to, data)) ELSE
     IF c \notin DOMAIN relay_clients
     THEN /\ Begin(c, Pkt("Relay", to, data), NoLoc)
          /\ Goto(c, "relay_err_client", TRUE)
     ELSE LET room_id == relay_clients[c] IN
          IF room_id \notin DOMAIN rooms
          THEN /\ Begin(c, Pkt("Relay", to, data), NoLoc)
               /\ Goto(c, "relay_err_room", TRUE)
          ELSE /\ Begin(c, Pkt("Relay", to, data),
                        [id |-> room_id, host |-> rooms[room_id].host,
                         clients |-> rooms[room_id].clients, i |-> 0])
               /\ Goto(c, "relay_retain", FALSE)
  /\ UNCHANGED <<ext, sock, wsPoisoned, wire, registry, issued, discCalls>>

\* relay(): room.clients.retain(|client| client.upgrade().is_some()), on the clone.
RelayRetain(c) ==
  /\ Running(c)
  /\ pc[c] = "relay_retain"
  /\ loc' = [loc EXCEPT ![c].clients = SelectSeq(@, Alive), ![c].i = 1]
  /\ Goto(c, "relay_loop", FALSE)
  /\ UNCHANGED <<ext, sock, wsPoisoned, wire, registry, cur, out, issued, discCalls, left>>

\* relay(): one iteration of `for client in &room.clients`, or the end of the loop.
RelayStep(c) ==
  /\ Running(c)
  /\ pc[c] = "relay_loop"
  /\ LET i == loc[c].i
         next == [loc EXCEPT ![c].i = i + 1] IN
     IF i > Len(loc[c].clients)
     THEN /\ Goto(c, "ret", FALSE)
          /\ UNCHANGED <<loc, out, wsPoisoned, wire>>
     ELSE LET client == loc[c].clients[i] IN
          IF ~Alive(client)
          THEN \* client.upgrade().unwrap() panics
               /\ Die(c)
               /\ UNCHANGED <<loc, out, wsPoisoned, wire>>
          ELSE IF client = c
          THEN /\ Goto(c, "relay_loop", FALSE)
               /\ loc' = next
               /\ UNCHANGED <<out, wsPoisoned, wire>>
          ELSE \/ \* client.peer_addr()? fails
                  /\ cur[c].a # None
                  /\ sock[client] = "closed"
                  /\ Goto(c, "ret", FALSE)
                  /\ UNCHANGED <<loc, out, wsPoisoned, wire>>
               \/ /\ ~RelaysTo(client, c, cur[c].a)
                  /\ Goto(c, "relay_loop", FALSE)
                  /\ loc' = next
                  /\ UNCHANGED <<out, wsPoisoned, wire>>
               \/ /\ RelaysTo(client, c, cur[c].a)
                  /\ \E o \in WriteOutcomes(client, "Relayed") :
                       /\ send_packet(c, client, Pkt("Relayed", c, cur[c].d), o)
                       /\ IF o = "panic"
                          THEN Die(c) /\ UNCHANGED loc
                          ELSE Goto(c, "relay_loop", FALSE) /\ loc' = next
  /\ UNCHANGED <<ext, sock, registry, cur, issued, discCalls, left>>

\* ---------------------------------------------------------------- disconnect
\* disconnect(): host_rooms.remove(&peer_addr).
disconnect_host_rooms(c) ==
  MapDel(host_rooms, c)

\* disconnect(): rooms.remove(&room_id) for the room host_rooms held for peer_addr.
disconnect_rooms(c) ==
  IF c \in DOMAIN host_rooms THEN MapDel(rooms, host_rooms[c]) ELSE rooms

\* peek returns Ok(0): mm.lock().unwrap().disconnect(peer_addr, &stream), up to
\* the first write of the notification loop.  room_id is what
\* relay_clients.remove(&peer_addr) returned.  Without a room to notify the
\* call returns, the guard drops and the thread ends.
ReadEOF(c) ==
  /\ AtRead(c)
  /\ sock[c] = "closed"
  /\ CanLock
  /\ IF mmPoisoned THEN LockPanics(c, Pkt("eof", None, Empty)) ELSE
     LET room_id == IF c \in DOMAIN relay_clients THEN relay_clients[c] ELSE NoRoom IN
     /\ discCalls' = [discCalls EXCEPT ![c] = @ + 1]
     /\ issued' = [id \in RoomIds |-> 0]
     /\ host_rooms' = disconnect_host_rooms(c)
     /\ rooms' = disconnect_rooms(c)
     /\ relay_clients' = MapDel(relay_clients, c)
     /\ IF room_id \in DOMAIN rooms'
        THEN /\ Begin(c, Pkt("eof", None, Empty),
                      [id |-> room_id, host |-> rooms'[room_id].host,
                       clients |-> rooms'[room_id].clients, i |-> 1])
             /\ Goto(c, "disc_loop", TRUE)
        ELSE /\ Begin(c, Pkt("eof", None, Empty), [NoLoc EXCEPT !.id = room_id])
             /\ Exit(c, "closed")
  /\ UNCHANGED <<ext, sock, wsPoisoned, wire, left>>

\* disconnect(): one iteration of `for client in &room.clients` under the
\* matchmaker and room guards, or the end of the loop, where the guards drop
\* and the thread ends.  The Result of send_packet is discarded.
DiscStep(c) ==
  /\ Running(c)
  /\ pc[c] = "disc_loop"
  /\ LET i == loc[c].i
         next == [loc EXCEPT ![c].i = i + 1] IN
     IF i > Len(loc[c].clients)
     THEN /\ Exit(c, "closed")
          /\ UNCHANGED <<loc, out, wsPoisoned, wire>>
     ELSE LET client == loc[c].clients[i] IN
          IF ~Alive(client) \/ client = c
          THEN /\ Goto(c, "disc_loop", TRUE)
               /\ loc' = next
               /\ UNCHANGED <<out, wsPoisoned, wire>>
          ELSE \E o \in WriteOutcomes(client, "Disconnected") :
                 /\ send_packet(c, client, Pkt("Disconnected", c, Empty), o)
                 /\ IF o = "panic"
                    THEN Die(c) /\ UNCHANGED loc
                    ELSE Goto(c, "disc_loop", TRUE) /\ loc' = next
  /\ UNCHANGED <<ext, sock, registry, cur, issued, discCalls, left>>

\* ---------------------------------------------------------------- specification
Next ==
  \E c \in Conns :
    \/ Unwind(c)
    \/ PeerClose(c)
    \/ ReadMalformed(c)
    \/ \E t \in InvalidTags : ReadInvalid(c, t)
    \/ ReadReset(c)
    \/ SendError(c)
    \/ HostReq(c)
    \/ HostSend(c)
    \/ \E id \in RoomIds : JoinReq(c, id)
    \/ JoinHost(c)
    \/ JoinClient(c)
    \/ \E h \in Conns \cup {None} : AddRelayReq(c, h)
    \/ AddRelayAck(c)
    \/ \E to \in Conns \cup {None}, data \in Payloads : RelayReq(c, to, data)
    \/ RelayRetain(c)
    \/ RelayStep(c)
    \/ ReadEOF(c)
    \/ DiscStep(c)

Spec == Init /\ [][Next]_vars

\* ---------------------------------------------------------------- one room, relaying
\* The broker after connection 1 was given room 0 (Host, answered RoomId(0)) and
\* the connections of a member list bound to it in that order (RequestRelay,
\* each acknowledged): every such state is a state Spec reaches with a larger
\* budget.  From there the peers send Relay packets and close.
InitRelay ==
  /\ thread = [c \in Conns |-> "run"]
  /\ sock = [c \in Conns |-> "open"]
  /\ wsPoisoned = [c \in Conns |-> FALSE]
  /\ wire = [c \in Conns |-> <<>>]
  /\ \E cl \in SeqsUpTo(Conns, MaxClients) :
       /\ rooms = [r \in {0} |-> [host |-> 1, clients |-> cl]]
       /\ relay_clients = [m \in Range(cl) |-> 0]
  /\ host_rooms = [h \in {1} |-> 0]
  /\ mmOwner = None
  /\ mmPoisoned = FALSE
  /\ pc = [c \in Conns |-> "read"]
  /\ cur = [c \in Conns |-> NoPkt]
  /\ loc = [c \in Conns |-> NoLoc]
  /\ out = [c \in Conns |-> <<>>]
  /\ issued = [id \in RoomIds |-> IF id = 0 THEN 1 ELSE 0]
  /\ discCalls = [c \in Conns |-> 0]
  /\ left = MaxRelayOps
  /\ InitWhrc
  /\ NewPeer(FALSE)
  /\ InitApp

NextRelay ==
  \E c \in Conns :
    \/ Unwind(c)
    \/ PeerClose(c)
    \/ ReadReset(c)
    \/ SendError(c)
    \/ \E to \in Conns \cup {None}, data \in Payloads : RelayReq(c, to, data)
    \/ RelayRetain(c)
    \/ RelayStep(c)
    \/ ReadEOF(c)
    \/ DiscStep(c)

SpecRelay == InitRelay /\ [][NextRelay]_vars

\* ---------------------------------------------------------------- a room id after its host left
\* The broker after connection 1 was given room 0, some of the other connections
\* bound to it (RequestRelay(Some(1)), acknowledged), and connection 1 closed:
\* disconnect(1) removed host_rooms[1] and rooms[0] and nothing else.  From
\* there the peers send Host, RequestRelay and Relay packets.
InitReuse ==
  /\ thread = [c \in Conns |-> IF c = 1 THEN "closed" ELSE "run"]
  /\ sock = [c \in Conns |-> IF c = 1 THEN "closed" ELSE "open"]
  /\ wsPoisoned = [c \in Conns |-> FALSE]
  /\ wire = [c \in Conns |-> <<>>]
  /\ rooms = EmptyMap
  /\ host_rooms = EmptyMap
  /\ \E members \in SUBSET (Conns \ {1}) : relay_clients = [m \in members |-> 0]
  /\ mmOwner = None
  /\ mmPoisoned = FALSE
  /\ pc = [c \in Conns |-> IF c = 1 THEN "end" ELSE "read"]
  /\ cur = [c \in Conns |-> NoPkt]
  /\ loc = [c \in Conns |-> NoLoc]
  /\ out = [c \in Conns |-> <<>>]
  /\ issued = [id \in RoomIds |-> 0]
  /\ discCalls = [c \in Conns |-> IF c = 1 THEN 1 ELSE 0]
  /\ left = MaxReuseOps
  /\ InitWhrc
  /\ NewPeer(FALSE)
  /\ InitApp

NextReuse ==
  \E c \in Conns :
    \/ Unwind(c)
    \/ SendError(c)
    \/ HostReq(c)
    \/ HostSend(c)
    \/ \E h \in Conns \cup {None} : AddRelayReq(c, h)
    \/ AddRelayAck(c)
    \/ \E to \in Conns \cup {None}, data \in Payloads : RelayReq(c, to, data)
    \/ RelayRetain(c)
    \/ RelayStep(c)

SpecReuse == InitReuse /\ [][NextReuse]_vars

\* ---------------------------------------------------------------- find_free_room_id, draw by draw
\* find_free_room_id(): `for _ in 1..50`, a range that starts at DRAW_FIRST and
\* ends before DRAW_END.
DRAW_FIRST == 1
DRAW_END == 50

DiceFrame == <<mmVars, whrcVars, peerVars, paint, acceptor, lk, joiner>>

\* host() calls mm.find_free_room_id(): the range iterator is created.
FindFreeRoomIdCall ==
  /\ dice.pc = "idle"
  /\ dice' = [dice EXCEPT !.pc = "loop", !.i = DRAW_FIRST]
  /\ UNCHANGED DiceFrame

\* One iteration of the loop: gen_range(0..=MAX_ROOM_ID) returns id, which is
\* returned unless it is a key of rooms.
FindFreeRoomIdDraw(id) ==
  /\ dice.pc = "loop"
  /\ dice.i < DRAW_END
  /\ dice' = IF id \notin DOMAIN rooms
             THEN [dice EXCEPT !.pc = "done", !.draws = @ + 1, !.result = id]
             ELSE [dice EXCEPT !.i = @ + 1, !.draws = @ + 1]
  /\ UNCHANGED DiceFrame

\* The range is exhausted: the function returns None.
FindFreeRoomIdNone ==
  /\ dice.pc = "loop"
  /\ dice.i >= DRAW_END
  /\ dice' = [dice EXCEPT !.pc = "done", !.result = NoRoom]
  /\ UNCHANGED DiceFrame

\* The broker with some room ids taken, all by rooms connection 1 has made
\* with Host packets (host_rooms keeps the last of them), and no handler at work.
InitDice ==
  /\ thread = [c \in Conns |-> "run"]
  /\ sock = [c \in Conns |-> "open"]
  /\ wsPoisoned = [c \in Conns |-> FALSE]
  /\ wire = [c \in Conns |-> <<>>]
  /\ \E taken \in SUBSET RoomIds :
       /\ rooms = [r \in taken |-> [host |-> 1, clients |-> <<>>]]
       /\ \E last \in SUBSET taken :
            /\ Cardinality(last) = (IF taken = {} THEN 0 ELSE 1)
            /\ host_rooms = [h \in {1 : r \in last} |-> CHOOSE r \in last : TRUE]
  /\ relay_clients = EmptyMap
  /\ mmOwner = None
  /\ mmPoisoned = FALSE
  /\ pc = [c \in Conns |-> "read"]
  /\ cur = [c \in Conns |-> NoPkt]
  /\ loc = [c \in Conns |-> NoLoc]
  /\ out = [c \in Conns |-> <<>>]
  /\ issued = [id \in RoomIds |-> 0]
  /\ discCalls = [c \in Conns |-> 0]
  /\ left = 0
  /\ InitWhrc
  /\ NewPeer(FALSE)
  /\ InitApp

NextDice ==
  \/ FindFreeRoomIdCall
  \/ \E id \in RoomIds : FindFreeRoomIdDraw(id)
  \/ FindFreeRoomIdNone

SpecDice == InitDice /\ [][NextDice]_vars

\* ---------------------------------------------------------------- the accept loop
\* main(): `for connection in listener.incoming()` calls start_client_thread,
\* which runs BufStream::new, and with it tungstenite's accept, before it
\* spawns the connection's thread.
AcceptFrame == <<whrcVars, peerVars, paint, lk, dice, joiner, sock, wsPoisoned, wire, registry, mmOwner,
                 mmPoisoned, pc, cur, loc, out, issued, discCalls, left>>

\* A peer connects: the connection is established by the listener's socket and
\* waits to be accepted.
TcpConnect(c) ==
  /\ acceptor.conn[c] = "away"
  /\ acceptor' = [acceptor EXCEPT !.conn[c] = "queued", !.backlog = Append(@, c)]
  /\ UNCHANGED <<mmVars, whrcVars, peerVars, paint, lk, dice, joiner>>

\* The peer of a connection that is not served yet sends its handshake
\* request, well-formed or not, or closes instead.
PeerHandshake(c, what) ==
  /\ acceptor.conn[c] \in {"queued", "handshake"}
  /\ acceptor.hs[c] = "none"
  /\ acceptor' = [acceptor EXCEPT !.hs[c] = what]
  /\ UNCHANGED <<mmVars, whrcVars, peerVars, paint, lk, dice, joiner>>

\* incoming() yields the next connection; start_client_thread: peer_addr()?
\* fails for a connection already closed (the error is logged and the loop goes
\* on) or BufStream::new enters accept().
AcceptNext ==
  /\ acceptor.pc = "incoming"
  /\ acceptor.backlog # <<>>
  /\ LET c == Head(acceptor.backlog) IN
     \/ /\ acceptor.hs[c] = "closed"
        /\ acceptor' = [acceptor EXCEPT !.backlog = Tail(@), !.conn[c] = "dropped"]
     \/ acceptor' = [acceptor EXCEPT !.backlog = Tail(@), !.conn[c] = "handshake",
                                     !.pc = "handshake", !.cur = c]
  /\ UNCHANGED <<mmVars, whrcVars, peerVars, paint, lk, dice, joiner>>

\* accept() has read a well-formed request and answered it: BufStream::new
\* returns, the thread is spawned and main goes back to incoming().
HandshakeDone ==
  /\ acceptor.pc = "handshake"
  /\ acceptor.hs[acceptor.cur] = "good"
  /\ acceptor' = [acceptor EXCEPT !.pc = "incoming", !.cur = None,
                                  !.conn[acceptor.cur] = "served"]
  /\ thread' = [thread EXCEPT ![acceptor.cur] = "run"]
  /\ UNCHANGED AcceptFrame

\* accept() returns Err for a malformed request or a closed connection, and
\* the unwrap in BufStream::new panics on the main thread: the process ends and
\* with it every handler thread.
HandshakeFails ==
  /\ acceptor.pc = "handshake"
  /\ acceptor.hs[acceptor.cur] \in {"bad", "closed"}
  /\ acceptor' = [acceptor EXCEPT !.pc = "panic", !.conn[acceptor.cur] = "dropped"]
  /\ thread' = [c \in Conns |-> IF thread[c] = "run" THEN "killed" ELSE thread[c]]
  /\ UNCHANGED AcceptFrame

\* The broker's steps, which the scheduler takes when they can be taken.
AcceptorStep == AcceptNext \/ HandshakeDone \/ HandshakeFails

\* The broker when it starts to listen: no connection, no thread.
InitAccept ==
  /\ thread = [c \in Conns |-> "unborn"]
  /\ sock = [c \in Conns |-> "open"]
  /\ wsPoisoned = [c \in Conns |-> FALSE]
  /\ wire = [c \in Conns |-> <<>>]
  /\ rooms = EmptyMap
  /\ host_rooms = EmptyMap
  /\ relay_clients = EmptyMap
  /\ mmOwner = None
  /\ mmPoisoned = FALSE
  /\ pc = [c \in Conns |-> "read"]
  /\ cur = [c \in Conns |-> NoPkt]
  /\ loc = [c \in Conns |-> NoLoc]
  /\ out = [c \in Conns |-> <<>>]
  /\ issued = [id \in RoomIds |-> 0]
  /\ discCalls = [c \in Conns |-> 0]
  /\ left = 0
  /\ InitWhrc
  /\ NewPeer(FALSE)
  /\ InitApp

NextAccept ==
  \/ \E c \in Conns : TcpConnect(c)
  \/ \E c \in Conns, what \in {"good", "bad", "closed"} : PeerHandshake(c, what)
  \/ AcceptNext
  \/ HandshakeDone
  \/ HandshakeFails

SpecAccept == InitAccept /\ [][NextAccept]_vars /\ WF_vars(AcceptorStep)

\* ---------------------------------------------------------------- the mutexes
\* What the handler threads do with the three kinds of mutex: the matchmaker's
\* (Arc<Mutex<Matchmaker>>), a room's (Arc<Mutex<Room>>) and a connection's
\* (BufStream.websocket).  Each operation is the sequence of lock() calls and
\* guard drops of its code; which room and which connections it meets is what
\* the registry holds at that moment, here any.
MM == [k |-> "mm", n |-> 0]
RoomMutex(r) == [k |-> "room", n |-> r]
WsMutex(d) == [k |-> "ws", n |-> d]
Acq(l) == [a |-> "acq", l |-> l]
Rel(l) == [a |-> "rel", l |-> l]

\* A step that depends on what was read or on what the registry holds:
\* "decode", the match on the decoded packet; "lookup", the room a lookup finds
\* (the room mutex of the function is written RoomMutex(NoRoom) until then);
\* "host", the connection room.host is; "loop", `for client in &room.clients`.
Branch(a) == [a |-> a, l |-> MM]

\* send_packet: stream.websocket.lock().unwrap().write_message(..), the guard
\* being a temporary of the statement.
SendLocks(d) == <<Acq(WsMutex(d)), Rel(WsMutex(d))>>

\* The read loop: stream.websocket.lock().unwrap().read_message() after peek,
\* then bincode::deserialize and incoming_packet.
ReadLocks(c) == <<Acq(WsMutex(c)), Rel(WsMutex(c)), Branch("decode")>>

\* A send_error under the matchmaker guard: host without a free id, join
\* without the room, add_relay without the host, relay by a stranger or into
\* a room that is gone.
ErrorLocks(c) == <<Acq(MM)>> \o SendLocks(c) \o <<Rel(MM)>>

\* A host() that takes the matchmaker mutex inside the websocket guard.
HostLocks_inside(c) == <<Acq(WsMutex(c)), Acq(MM), Rel(MM), Rel(WsMutex(c))>>

\* host(): drop(mm) before RoomId is sent.
HostLocks(c) == <<Acq(MM), Rel(MM)>> \o SendLocks(c)

\* join(): the matchmaker guard and the room guard live to the end; the first
\* write goes to room.host.
JoinLocks(c) ==
  <<Acq(MM), Branch("lookup"), Acq(RoomMutex(NoRoom)), Branch("host")>> \o SendLocks(c)
    \o <<Rel(RoomMutex(NoRoom)), Rel(MM)>>

\* add_relay(): the room guard is a temporary of the push.
AddRelayLocks(c) ==
  <<Acq(MM), Branch("lookup"), Acq(RoomMutex(NoRoom)), Rel(RoomMutex(NoRoom))>>
    \o SendLocks(c) \o <<Rel(MM)>>

\* relay(): the room is cloned under both guards, drop(mm), then the fan-out.
RelayLocks(c) ==
  <<Acq(MM), Branch("lookup"), Acq(RoomMutex(NoRoom)), Rel(RoomMutex(NoRoom)), Rel(MM), Branch("loop")>>

\* mm.lock().unwrap().disconnect(..): the notification loop runs under the
\* matchmaker guard and the room guard.
DisconnectLocks(c) ==
  <<Acq(MM), Branch("lookup"), Acq(RoomMutex(NoRoom)), Branch("loop"), Rel(RoomMutex(NoRoom)), Rel(MM)>>

\* The operations a packet read by the thread of c can lead to.
PacketLocks(c) ==
  {ErrorLocks(c), HostLocks(c), JoinLocks(c), AddRelayLocks(c), RelayLocks(c)}

\* The rest of a function once its lookup has found room r.
Bind(prog, r) ==
  [i \in DOMAIN prog |->
     IF prog[i].l = RoomMutex(NoRoom) THEN [prog[i] EXCEPT !.l = RoomMutex(r)]
     ELSE prog[i]]

LockFrame == <<mmVars, whrcVars, peerVars, paint, acceptor, dice, joiner>>

\* The thread that holds mutex l, or None.
Holder(l) ==
  IF \E c \in Conns : l \in lk.held[c]
  THEN CHOOSE c \in Conns : l \in lk.held[c]
  ELSE None

\* peek returns with a frame waiting: the thread goes on to read it.
LockPacket(c) ==
  /\ lk.prog[c] = <<>>
  /\ ~lk.ended[c]
  /\ lk.left > 0
  /\ lk' = [lk EXCEPT !.prog[c] = ReadLocks(c), !.left = @ - 1]
  /\ UNCHANGED LockFrame

\* peek returns Ok(0): disconnect, after which the loop is left.
LockEOF(c) ==
  /\ lk.prog[c] = <<>>
  /\ ~lk.ended[c]
  /\ lk.left > 0
  /\ lk' = [lk EXCEPT !.prog[c] = DisconnectLocks(c), !.ended[c] = TRUE, !.left = @ - 1]
  /\ UNCHANGED LockFrame

\* A step without a mutex: incoming_packet's match on the decoded packet, a
\* lookup in the registry, room.host, or the loop over the members, which
\* comes to another connection's stream or ends.
LockBranch(c) ==
  /\ lk.prog[c] # <<>>
  /\ LET a == Head(lk.prog[c]).a
         rest == Tail(lk.prog[c]) IN
     /\ a \in {"decode", "lookup", "host", "loop"}
     /\ \E next \in CASE a = "decode" -> {p \o rest : p \in PacketLocks(c)}
                      [] a = "lookup" -> {Bind(rest, r) : r \in RoomIds}
                      [] a = "host" -> {SendLocks(d) \o rest : d \in Conns}
                      [] a = "loop" -> {rest} \cup {SendLocks(d) \o lk.prog[c] :
                                                     d \in Conns \ {c}} :
          lk' = [lk EXCEPT !.prog[c] = next]
  /\ UNCHANGED LockFrame

\* lock() returns: the mutex was free.
LockAcquire(c) ==
  /\ lk.prog[c] # <<>>
  /\ Head(lk.prog[c]).a = "acq"
  /\ Holder(Head(lk.prog[c]).l) = None
  /\ lk' = [lk EXCEPT !.prog[c] = Tail(@), !.held[c] = @ \cup {Head(lk.prog[c]).l}]
  /\ UNCHANGED LockFrame

\* A guard is dropped.
LockRelease(c) ==
  /\ lk.prog[c] # <<>>
  /\ Head(lk.prog[c]).a = "rel"
  /\ lk' = [lk EXCEPT !.prog[c] = Tail(@), !.held[c] = @ \ {Head(lk.prog[c]).l}]
  /\ UNCHANGED LockFrame

InitLocks ==
  /\ InitMatchmaker
  /\ InitWhrc
  /\ NewPeer(FALSE)
  /\ paint = NewPaint
  /\ acceptor = NewAcceptor
  /\ lk = [NewLocks EXCEPT !.left = MaxLockOps]
  /\ dice = NewDice
  /\ joiner = NewJoiner

NextLocks ==
  \E c \in Conns :
    \/ LockPacket(c)
    \/ LockEOF(c)
    \/ LockBranch(c)
    \/ LockAcquire(c)
    \/ LockRelease(c)

SpecLocks == InitLocks /\ [][NextLocks]_vars

\* ---------------------------------------------------------------- one room, every connection bound
\* The broker after connection 1 was given room 0 and every connection bound to
\* it once, in the order of the addresses (RequestRelay(None) by 1,
\* RequestRelay(Some(1)) by the others, each acknowledged).
InitFanout ==
  /\ thread = [c \in Conns |-> "run"]
  /\ sock = [c \in Conns |-> "open"]
  /\ wsPoisoned = [c \in Conns |-> FALSE]
  /\ wire = [c \in Conns |-> <<>>]
  /\ rooms = [r \in {0} |-> [host |-> 1, clients |-> [i \in 1..NumConns |-> i]]]
  /\ relay_clients = [m \in Conns |-> 0]
  /\ host_rooms = [h \in {1} |-> 0]
  /\ mmOwner = None
  /\ mmPoisoned = FALSE
  /\ pc = [c \in Conns |-> "read"]
  /\ cur = [c \in Conns |-> NoPkt]
  /\ loc = [c \in Conns |-> NoLoc]
  /\ out = [c \in Conns |-> <<>>]
  /\ issued = [id \in RoomIds |-> IF id = 0 THEN 1 ELSE 0]
  /\ discCalls = [c \in Conns |-> 0]
  /\ left = MaxFanoutOps
  /\ InitWhrc
  /\ NewPeer(FALSE)
  /\ InitApp

SpecFanout == InitFanout /\ [][NextRelay]_vars

\* ---------------------------------------------------------------- one room, stamped relays
\* The broker of InitFanout; the peers send Relay packets only, and the k-th
\* frame of the run carries the payload Stamps[k], so that the payloads of one
\* sender tell the order in which it sent them.
InitOrder ==
  /\ thread = [c \in Conns |-> "run"]
  /\ sock = [c \in Conns |-> "open"]
  /\ wsPoisoned = [c \in Conns |-> FALSE]
  /\ wire = [c \in Conns |-> <<>>]
  /\ rooms = [r \in {0} |-> [host |-> 1, clients |-> [i \in 1..NumConns |-> i]]]
  /\ relay_clients = [m \in Conns |-> 0]
  /\ host_rooms = [h \in {1} |-> 0]
  /\ mmOwner = None
  /\ mmPoisoned = FALSE
  /\ pc = [c \in Conns |-> "read"]
  /\ cur = [c \in Conns |-> NoPkt]
  /\ loc = [c \in Conns |-> NoLoc]
  /\ out = [c \in Conns |-> <<>>]
  /\ issued = [id \in RoomIds |-> IF id = 0 THEN 1 ELSE 0]
  /\ discCalls = [c \in Conns |-> 0]
  /\ left = MaxOrderOps
  /\ InitWhrc
  /\ NewPeer(FALSE)
  /\ InitApp

NextOrder ==
  \E c \in Conns :
    \/ Unwind(c)
    \/ \E to \in Conns \cup {None} : RelayReq(c, to, Stamps[MaxOrderOps - left + 1])
    \/ RelayRetain(c)
    \/ RelayStep(c)

SpecOrder == InitOrder /\ [][NextOrder]_vars

\* ---------------------------------------------------------------- a session of a host and a client
\* Two clients of the broker as net/peer.rs drives them.  The host sends Host
\* (Peer::host) and, once it hosts a room, RequestRelay(None) (next_packet on
\* RoomId).  The client sends GetHost of the room's id (Peer::join), then
\* RequestRelay(Some(host)) (next_packet on HostAddress), then Relay(None, p)
\* (Peer::send).  After these the two go on sending Relay(None, p).
E2EH == CHOOSE h \in DOMAIN host_rooms : TRUE
E2EA == (E2EH % NumConns) + 1
E2EDone == MaxE2EOps - left
E2EHDone == 1 + (IF E2EH \in DOMAIN relay_clients THEN 1 ELSE 0)
E2EADone == E2EDone - E2EHDone

InitE2E ==
  /\ thread = [c \in Conns |-> "run"]
  /\ sock = [c \in Conns |-> "open"]
  /\ wsPoisoned = [c \in Conns |-> FALSE]
  /\ wire = [c \in Conns |-> <<>>]
  /\ rooms = EmptyMap
  /\ host_rooms = EmptyMap
  /\ relay_clients = EmptyMap
  /\ mmOwner = None
  /\ mmPoisoned = FALSE
  /\ pc = [c \in Conns |-> "read"]
  /\ cur = [c \in Conns |-> NoPkt]
  /\ loc = [c \in Conns |-> NoLoc]
  /\ out = [c \in Conns |-> <<>>]
  /\ issued = [id \in RoomIds |-> 0]
  /\ discCalls = [c \in Conns |-> 0]
  /\ left = MaxE2EOps
  /\ InitWhrc
  /\ NewPeer(FALSE)
  /\ InitApp

E2EHost(c) ==
  /\ DOMAIN host_rooms = {}
  /\ HostReq(c)

E2EJoin(c) ==
  /\ DOMAIN host_rooms # {}
  /\ issued[host_rooms[E2EH]] = 1
  /\ c = E2EA
  /\ E2EADone = 0
  /\ JoinReq(c, host_rooms[E2EH])

E2ERequestRelay(c) ==
  /\ DOMAIN host_rooms # {}
  /\ \/ c = E2EH /\ c \notin DOMAIN relay_clients /\ AddRelayReq(c, None)
     \/ c = E2EA /\ E2EADone = 1 /\ AddRelayReq(c, E2EH)

E2ERelay(c) ==
  /\ DOMAIN host_rooms # {}
  /\ {E2EH, E2EA} \subseteq DOMAIN relay_clients
  /\ \/ c = E2EA
     \/ c = E2EH /\ E2EADone >= 3
  /\ \E data \in Payloads : RelayReq(c, None, data)

NextE2E ==
  \E c \in Conns :
    \/ Unwind(c)
    \/ E2EHost(c)
    \/ HostSend(c)
    \/ E2EJoin(c)
    \/ JoinHost(c)
    \/ JoinClient(c)
    \/ E2ERequestRelay(c)
    \/ AddRelayAck(c)
    \/ E2ERelay(c)
    \/ RelayRetain(c)
    \/ RelayStep(c)

SpecE2E == InitE2E /\ [][NextE2E]_vars

\* ---------------------------------------------------------------- the relay server: host with a custom room id
ErrNoFreePeerIDs == "NoFreePeerIDs"
ErrRelayNoFreeRooms == "NoFreeRooms"

\* state.peers.allocate_peer_id: the next peer id, or None when none is free.
allocate_peer_id ==
  IF Len(whrc_peers) < MaxPeerIds THEN Len(whrc_peers) + 1 ELSE None

\* state.rooms.host_id(room_id): the peer id hosting the room, or None.
host_id(room_id) ==
  IF room_id \in DOMAIN room_hosts THEN room_hosts[room_id] ELSE None

\* whrc_custom_id_host(write, address, state, room_id), called with the state
\* locked: the peer id is allocated first, then the room id is looked up.
whrc_custom_id_host(address, room_id) ==
  /\ whrc_calls < MaxWhrcOps
  /\ whrc_calls' = whrc_calls + 1
  /\ LET peer_id == allocate_peer_id
         answer(p) == [address |-> address, room_id |-> room_id, reply |-> p] IN
     IF peer_id = None
     THEN /\ whrc_last' = answer(WhrcPkt("Error", NoRoom, None, ErrNoFreePeerIDs))
          /\ UNCHANGED <<whrc_peers, occupied_room_ids, room_clients, room_hosts>>
     ELSE /\ whrc_peers' = Append(whrc_peers, address)
          /\ IF host_id(room_id) # None
             THEN /\ whrc_last' = answer(WhrcPkt("Error", NoRoom, None, ErrRelayNoFreeRooms))
                  /\ UNCHANGED <<occupied_room_ids, room_clients, room_hosts>>
             ELSE /\ occupied_room_ids' = occupied_room_ids \cup {room_id}
                  /\ room_hosts' = MapPut(room_hosts, room_id, peer_id)
                  /\ room_clients' = MapPut(room_clients, room_id,
                                             IF room_id \in occupied_room_ids
                                             THEN Append(room_clients[room_id], peer_id)
                                             ELSE <<peer_id>>)
                  /\ whrc_last' = answer(WhrcPkt("RoomCreated", room_id, peer_id, Empty))
  /\ UNCHANGED <<mmVars, peerVars, appVars>>

NextWhrc ==
  \E address \in Conns, room_id \in RoomIds : whrc_custom_id_host(address, room_id)

SpecWhrc == Init /\ [][NextWhrc]_vars

\* ---------------------------------------------------------------- the client's Peer
PROTOCOL_VERSION == "current"
Versions == {PROTOCOL_VERSION, "old"}
\* cl::compatible_with(version)
compatible_with(version) == version = PROTOCOL_VERSION

ErrSend == "send failed"
ErrTooOld == "Client is too old."

\* Client packets decode_payload accepts besides Hello, HiThere and Version:
\* the ones that yield a Message and the ones that yield None; "garbage" is a
\* payload bincode cannot deserialize.
Yielding == {"Stroke", "WHDChatMessage"}
\* The client packets that carry chunk positions.
ChunkKinds == {"ChunkPositions", "GetChunks", "Chunks"}
Silent == {"garbage", "Cursor"}

\* What the Peer hands to Remote::send: self.send(to, packet) wraps the client
\* packet in mm::Packet::Relay(to, ..); RequestRelay goes out as it is.
Relay(to, k, n) == [mm |-> "Relay", to |-> to, k |-> k, n |-> n]
RequestRelay(h) == [mm |-> "RequestRelay", to |-> h, k |-> "", n |-> Empty]
\* Then::SayHello: self.send(None, Hello(self.nickname)).
SayHello == Relay(None, "Hello", OwnNick)

\* decode_payload, Hello: the two answers, in the order they are sent.
HelloReplies_swapped(sender_addr) ==
  <<Relay(sender_addr, "Version", PROTOCOL_VERSION), Relay(sender_addr, "HiThere", OwnNick)>>

HelloReplies(sender_addr) ==
  <<Relay(sender_addr, "HiThere", OwnNick), Relay(sender_addr, "Version", PROTOCOL_VERSION)>>

\* add_mate: self.mates.insert(addr, Mate { nickname, .. }).
add_mate(addr, nickname) == MapPut(mates, addr, nickname)

\* next_packet, Disconnected: self.mates.remove(&addr).
remove_mate_kept(addr) == mates

remove_mate(addr) == MapDel(mates, addr)

\* The sends of one next_packet call stop at the first that fails
\* (try_or_message!): k of the planned packets go out.  A Remote whose send
\* has failed stays down.
SendOutcomes(plan) == IF link = "up" THEN 0..Len(plan) ELSE {0}

Sends(plan, k) ==
  /\ sent' = SubSeq(plan, 1, k)
  /\ link' = IF k < Len(plan) THEN "down" ELSE link

\* mm.try_recv() returns packet p.
TryRecv(p) ==
  /\ peer_left > 0
  /\ peer_left' = peer_left - 1
  /\ recv' = p
  /\ UNCHANGED <<mmVars, whrcVars, is_host, appVars>>

\* next_packet, RoomId(id): RequestRelay(None), then SayHello.
PeerRoomId(id) ==
  /\ TryRecv(Rcv("RoomId", id, "", Empty))
  /\ peer_room_id' = id
  /\ LET plan == <<RequestRelay(None), SayHello>> IN
     \E k \in SendOutcomes(plan) :
       /\ Sends(plan, k)
       /\ message' = IF k = 2 THEN Msg("Connected", Empty, None) ELSE Msg("Error", ErrSend, None)
  /\ UNCHANGED <<is_relayed, peer_host, mates, greeted>>

\* next_packet, HostAddress(addr): connect_to_host, then SayHello.
PeerHostAddress(addr) ==
  /\ TryRecv(Rcv("HostAddress", addr, "", Empty))
  /\ peer_host' = addr
  /\ LET plan == <<RequestRelay(addr), SayHello>> IN
     \E k \in SendOutcomes(plan) :
       /\ Sends(plan, k)
       /\ is_relayed' = (is_relayed \/ k >= 1)
       /\ message' = IF k = 2 THEN Msg("Connected", Empty, None) ELSE Msg("Error", ErrSend, None)
  /\ UNCHANGED <<peer_room_id, mates, greeted>>

\* next_packet, ClientAddress(_addr).
PeerClientAddress(addr) ==
  /\ TryRecv(Rcv("ClientAddress", addr, "", Empty))
  /\ Sends(<<>>, 0)
  /\ message' = NoMsg
  /\ UNCHANGED <<is_relayed, peer_room_id, peer_host, mates, greeted>>

\* next_packet, Relayed(_, payload) with an empty payload: SayHello.
PeerRelayedEmpty(from) ==
  /\ TryRecv(Rcv("Relayed", from, "", Empty))
  /\ \E k \in SendOutcomes(<<SayHello>>) :
       /\ Sends(<<SayHello>>, k)
       /\ message' = IF k = 1 THEN NoMsg ELSE Msg("Error", ErrSend, None)
  /\ UNCHANGED <<is_relayed, peer_room_id, peer_host, mates, greeted>>

\* decode_payload, Hello(nickname) from sender_addr.
PeerHello(sender_addr, nickname) ==
  /\ TryRecv(Rcv("Relayed", sender_addr, "Hello", nickname))
  /\ greeted' = greeted \cup {sender_addr}
  /\ \E k \in SendOutcomes(HelloReplies(sender_addr)) :
       /\ Sends(HelloReplies(sender_addr), k)
       /\ IF k = 2
          THEN /\ mates' = add_mate(sender_addr, nickname)
               /\ message' = Msg("Joined", nickname, IF is_host THEN sender_addr ELSE None)
          ELSE /\ mates' = mates
               /\ message' = Msg("Error", ErrSend, None)
  /\ UNCHANGED <<is_relayed, peer_room_id, peer_host>>

\* decode_payload, HiThere(nickname) from sender_addr.
PeerHiThere(sender_addr, nickname) ==
  /\ TryRecv(Rcv("Relayed", sender_addr, "HiThere", nickname))
  /\ greeted' = greeted \cup {sender_addr}
  /\ mates' = add_mate(sender_addr, nickname)
  /\ Sends(<<>>, 0)
  /\ message' = NoMsg
  /\ UNCHANGED <<is_relayed, peer_room_id, peer_host>>

\* decode_payload, Version(version).
PeerVersion(sender_addr, version) ==
  /\ TryRecv(Rcv("Relayed", sender_addr, "Version", version))
  /\ Sends(<<>>, 0)
  /\ message' = IF ~compatible_with(version) THEN Msg("Error", ErrTooOld, None) ELSE NoMsg
  /\ UNCHANGED <<is_relayed, peer_room_id, peer_host, mates, greeted>>

\* decode_payload, the other payloads.
PeerPayload(sender_addr, k) ==
  /\ TryRecv(Rcv("Relayed", sender_addr, k, Empty))
  /\ Sends(<<>>, 0)
  /\ message' = IF k \in Yielding THEN Msg(k, Empty, None) ELSE NoMsg
  /\ UNCHANGED <<is_relayed, peer_room_id, peer_host, mates, greeted>>

\* decode_payload, ChunkPositions(positions), GetChunks(positions) and
\* Chunks(chunks): the Message carries the positions, and GetChunks the sender.
PeerChunkPayload(sender_addr, k, ps) ==
  /\ TryRecv(ChunkRcv(sender_addr, k, ps))
  /\ Sends(<<>>, 0)
  /\ message' = ChunkMsg(k, IF k = "GetChunks" THEN sender_addr ELSE None, ps)
  /\ UNCHANGED <<is_relayed, peer_room_id, peer_host, mates, greeted>>

\* next_packet, Disconnected(addr).
PeerDisconnected(addr) ==
  /\ TryRecv(Rcv("Disconnected", addr, "", Empty))
  /\ greeted' = greeted \ {addr}
  /\ Sends(<<>>, 0)
  /\ IF addr \in DOMAIN mates
     THEN /\ mates' = remove_mate(addr)
          /\ message' = Msg("Left", mates[addr], None)
     ELSE /\ mates' = mates
          /\ message' = NoMsg
  /\ UNCHANGED <<is_relayed, peer_room_id, peer_host>>

\* next_packet, Error(message).
PeerError(text) ==
  /\ TryRecv(Rcv("Error", None, "", text))
  /\ Sends(<<>>, 0)
  /\ message' = Msg("Error", text, None)
  /\ UNCHANGED <<is_relayed, peer_room_id, peer_host, mates, greeted>>

\* next_packet, `_ => return None`.
PeerIgnored(t) ==
  /\ TryRecv(Rcv(t, None, "", Empty))
  /\ Sends(<<>>, 0)
  /\ message' = NoMsg
  /\ UNCHANGED <<is_relayed, peer_room_id, peer_host, mates, greeted>>

InitPeer == \E h \in BOOLEAN : InitMatchmaker /\ InitWhrc /\ NewPeer(h) /\ InitApp

NextPeer ==
  \/ \E id \in RoomIds : PeerRoomId(id)
  \/ \E addr \in Mates : PeerHostAddress(addr)
  \/ \E addr \in Mates : PeerClientAddress(addr)
  \/ \E from \in Mates : PeerRelayedEmpty(from)
  \/ \E from \in Mates, n \in Nicks : PeerHello(from, n)
  \/ \E from \in Mates, n \in Nicks : PeerHiThere(from, n)
  \/ \E from \in Mates, v \in Versions : PeerVersion(from, v)
  \/ \E from \in Mates, k \in Yielding \cup Silent : PeerPayload(from, k)
  \/ \E from \in Mates, k \in ChunkKinds, ps \in SUBSET Positions : PeerChunkPayload(from, k, ps)
  \/ \E addr \in Mates : PeerDisconnected(addr)
  \/ PeerError(ErrHostDisconnected)
  \/ PeerIgnored("Host")

SpecPeer == InitPeer /\ [][NextPeer]_vars

\* ---------------------------------------------------------------- the paint State of the client
\* positions.chunks(32)
CHUNK_BATCH == 32

\* self.send(to, packet) for a packet that carries positions.
ChunkRelay(to, k, ps) == [mm |-> "Relay", to |-> to, k |-> k, n |-> Empty, ps |-> ps]

\* positions.chunks(32): the positions in runs of at most 32.
RECURSIVE Batches(_)
Batches(ps) ==
  IF ps = {} THEN <<>>
  ELSE IF Cardinality(ps) <= CHUNK_BATCH THEN <<ps>>
  ELSE LET b == {x \in ps : Cardinality({y \in ps : y < x}) < CHUNK_BATCH}
       IN  <<b>> \o Batches(ps \ b)

\* ok_or_log!(self.log, self.peer.send..(..)): the packets go out on a working
\* Remote, and the error is logged on a broken one.
PaintOut(pkts) == IF link = "up" THEN paint.out \o pkts ELSE paint.out

\* The arms of `match message` in the network loop of process().
Displayed == {"Left", "Stroke", "WHDChatMessage"}
Deferred_none == {}

Deferred == {"Joined", "GetChunks"}

\* The other peer of the room a paint session hears from: its host, or the
\* joiner of the room it hosts.
PaintMate == CHOOSE a \in Mates : TRUE

\* viewport.visible_tiles: nothing of the canvas in view, or all of it.
Views == {{}, Positions}

\* The position lists a chunk packet to the session carries: none, one, all.
ChunkSets == {{}, {1}, Positions}

PaintFrame == <<mmVars, whrcVars, peerVars, acceptor, lk, dice, joiner>>

\* process() starts: peer.tick() returns the iterator.
PaintBegin ==
  /\ paint.pc = "idle"
  /\ paint.app = "paint"
  /\ paint.left > 0
  /\ paint' = [paint EXCEPT !.pc = "net", !.left = @ - 1, !.seen = peer_left,
                            !.out = <<>>, !.yielded = <<>>, !.handled = <<>>]
  /\ UNCHANGED PaintFrame

\* process() starts and peer.tick() is Err, the Remote being broken: the
\* error is kept and no message is read.
PaintTickFails ==
  /\ paint.pc = "idle"
  /\ paint.app = "paint"
  /\ paint.left > 0
  /\ link' = "down"
  /\ paint' = [paint EXCEPT !.pc = "drain", !.left = @ - 1, !.seen = peer_left,
                            !.error = ErrSend,
                            !.out = <<>>, !.yielded = <<>>, !.handled = <<>>]
  /\ UNCHANGED <<mmVars, whrcVars, acceptor, lk, dice, joiner, is_host, is_relayed, peer_room_id,
                 peer_host, mates, recv, sent, message, greeted, peer_left>>

\* Messages::next: next_packet takes a packet from the matchmaker.
PaintNextPacket ==
  /\ paint.pc = "net"
  /\ paint.seen = peer_left
  /\ \/ PeerRoomId(0)
     \/ PeerHello(PaintMate, "ann")
     \/ PeerHiThere(PaintMate, "ann")
     \/ \E v \in Versions : PeerVersion(PaintMate, v)
     \/ PeerPayload(PaintMate, "Stroke")
     \/ \E k \in ChunkKinds, ps \in ChunkSets : PeerChunkPayload(PaintMate, k, ps)
     \/ PeerDisconnected(PaintMate)
     \/ PeerError(ErrHostDisconnected)

\* Messages::next with no packet waiting: next_packet returns None and the
\* loop over the messages ends.
PaintQueueEmpty ==
  /\ paint.pc = "net"
  /\ paint.seen = peer_left
  /\ paint' = [paint EXCEPT !.pc = "drain"]
  /\ UNCHANGED PaintFrame

\* One turn of `for message in messages`: the match on what next_packet
\* returned; None ends the loop.
PaintMatch ==
  /\ paint.pc = "net"
  /\ paint.seen # peer_left
  /\ LET t == message.t
         p == [paint EXCEPT !.seen = peer_left,
                            !.yielded = IF t = "" THEN @ ELSE Append(@, message)] IN
     paint' =
       CASE t = "" -> [p EXCEPT !.pc = "drain"]
         [] t = "Error" -> [p EXCEPT !.error = message.n]
         [] t = "Connected" -> [p EXCEPT !.pc = "panic"]
         [] t \in Displayed -> p
         [] t = "ChunkPositions" -> [p EXCEPT !.server_side_chunks = message.ps]
         [] t = "Chunks" ->
              [p EXCEPT !.downloaded_chunks = @ \cup message.ps,
                        !.canvas = @ \cup message.ps]
         [] t \in Deferred ->
              [p EXCEPT !.deferred_message_queue = Append(@, message)]
         [] OTHER -> p
  /\ UNCHANGED PaintFrame

\* One turn of `for message in self.deferred_message_queue.drain(..)`, or its end.
PaintDrain ==
  /\ paint.pc = "drain"
  /\ IF paint.deferred_message_queue = <<>>
     THEN paint' = [paint EXCEPT !.pc = "request"]
     ELSE LET m == Head(paint.deferred_message_queue)
              answer ==
                IF m.t = "Joined"
                THEN IF m.a # None
                     THEN <<ChunkRelay(m.a, "ChunkPositions", paint.canvas)>>
                     ELSE <<>>
                ELSE LET bs == Batches(m.ps) IN
                     [i \in 1..Len(bs) |-> ChunkRelay(m.a, "Chunks", bs[i] \cap paint.canvas)]
          IN paint' = [paint EXCEPT !.deferred_message_queue = Tail(@),
                                    !.handled = Append(@, m),
                                    !.out = PaintOut(answer)]
  /\ UNCHANGED PaintFrame

\* process(): needed_chunks go to requested_chunks and into one GetChunks to
\* the host; download_chunks asserts that the host is known.
PaintRequest ==
  /\ paint.pc = "request"
  /\ IF paint.needed_chunks = {}
     THEN paint' = [paint EXCEPT !.pc = "canvas"]
     ELSE paint' = [paint EXCEPT
                      !.requested_chunks = @ \cup paint.needed_chunks,
                      !.needed_chunks = {},
                      !.out = IF peer_host = None THEN @
                              ELSE PaintOut(<<ChunkRelay(peer_host, "GetChunks",
                                                         paint.needed_chunks)>>),
                      !.asked = IF peer_host = None \/ link # "up" THEN @
                                ELSE Append(@, paint.needed_chunks),
                      !.pc = IF peer_host = None THEN "panic" ELSE "canvas"]
  /\ UNCHANGED PaintFrame

\* The timer body without the downloaded_chunks test before the save.
ChunkDownloading_eager(p, visible) ==
  IF p.save_to_file
  THEN IF Cardinality(p.requested_chunks) < Cardinality(p.server_side_chunks)
       THEN [p EXCEPT !.needed_chunks = @ \cup (p.server_side_chunks \ p.requested_chunks)]
       ELSE [p EXCEPT !.save_to_file = FALSE,
                      !.saved = Save(1, p.server_side_chunks, p.downloaded_chunks,
                                     p.canvas)]
  ELSE [p EXCEPT !.needed_chunks =
          @ \cup {c \in visible : c \in p.server_side_chunks /\ c \notin p.requested_chunks}]

\* The timer body with a view branch that does not test server_side_chunks.
ChunkDownloading_unadvertised(p, visible) ==
  IF p.save_to_file
  THEN IF Cardinality(p.requested_chunks) < Cardinality(p.server_side_chunks)
       THEN [p EXCEPT !.needed_chunks = @ \cup (p.server_side_chunks \ p.requested_chunks)]
       ELSE IF Cardinality(p.downloaded_chunks) = Cardinality(p.server_side_chunks)
       THEN [p EXCEPT !.save_to_file = FALSE,
                      !.saved = Save(1, p.server_side_chunks, p.downloaded_chunks,
                                     p.canvas)]
       ELSE p
  ELSE [p EXCEPT !.needed_chunks = @ \cup {c \in visible : c \notin p.requested_chunks}]

\* The timer body with a view branch that does not test requested_chunks.
ChunkDownloading_again(p, visible) ==
  IF p.save_to_file
  THEN IF Cardinality(p.requested_chunks) < Cardinality(p.server_side_chunks)
       THEN [p EXCEPT !.needed_chunks = @ \cup (p.server_side_chunks \ p.requested_chunks)]
       ELSE IF Cardinality(p.downloaded_chunks) = Cardinality(p.server_side_chunks)
       THEN [p EXCEPT !.save_to_file = FALSE,
                      !.saved = Save(1, p.server_side_chunks, p.downloaded_chunks,
                                     p.canvas)]
       ELSE p
  ELSE [p EXCEPT !.needed_chunks = @ \cup {c \in visible : c \in p.server_side_chunks}]

\* The body of `for _ in self.update_timer.tick()` in process_canvas, chunk
\* downloading, with the tiles in view.
ChunkDownloading(p, visible) ==
  IF p.save_to_file
  THEN IF Cardinality(p.requested_chunks) < Cardinality(p.server_side_chunks)
       THEN [p EXCEPT !.needed_chunks = @ \cup (p.server_side_chunks \ p.requested_chunks)]
       ELSE IF Cardinality(p.downloaded_chunks) = Cardinality(p.server_side_chunks)
       THEN [p EXCEPT !.save_to_file = FALSE,
                      !.saved = Save(1, p.server_side_chunks, p.downloaded_chunks,
                                     p.canvas)]
       ELSE p
  ELSE [p EXCEPT !.needed_chunks =
          @ \cup {c \in visible : c \in p.server_side_chunks /\ c \notin p.requested_chunks}]

\* A next_state() that stays in the paint state whatever self.error holds.
next_state_stay(p) == p

\* next_state(): with an error the application goes back to the lobby, which
\* shows it.
next_state(p) ==
  IF p.error # NoError THEN [p EXCEPT !.app = "lobby", !.lobby = p.error] ELSE p

\* The rest of process(): process_canvas with the update timer due or not,
\* process_bar where the user may ask for the canvas to be saved, and then
\* next_state().
PaintCanvas(due, visible, save) ==
  /\ paint.pc = "canvas"
  /\ LET p1 == IF due THEN ChunkDownloading(paint, visible) ELSE paint
         p2 == IF save THEN [p1 EXCEPT !.save_to_file = TRUE] ELSE p1
     IN paint' = next_state([p2 EXCEPT !.pc = "idle"])
  /\ UNCHANGED PaintFrame

\* A paint State made by the lobby after Message::Connected: a host knows its
\* room id, a joiner its host.
InitPaint ==
  /\ InitMatchmaker
  /\ InitWhrc
  /\ acceptor = NewAcceptor
  /\ lk = NewLocks
  /\ dice = NewDice
  /\ joiner = NewJoiner
  /\ is_host \in BOOLEAN
  /\ is_relayed = ~is_host
  /\ peer_room_id = IF is_host THEN 0 ELSE NoRoom
  /\ peer_host = IF is_host THEN None ELSE PaintMate
  /\ mates = EmptyMap
  /\ link = "up"
  /\ recv = NoRcv
  /\ sent = <<>>
  /\ message = NoMsg
  /\ greeted = {}
  /\ peer_left = MaxPaintPackets
  /\ \E cv \in SUBSET Positions :
       paint = [NewPaint EXCEPT !.left = MaxFrames, !.seen = MaxPaintPackets,
                                !.canvas = IF is_host THEN cv ELSE {}]

NextPaint ==
  \/ PaintBegin
  \/ PaintTickFails
  \/ PaintNextPacket
  \/ PaintQueueEmpty
  \/ PaintMatch
  \/ PaintDrain
  \/ PaintRequest
  \/ \E due \in BOOLEAN, visible \in Views, save \in BOOLEAN :
       PaintCanvas(due, visible, save)

SpecPaint == InitPaint /\ [][NextPaint]_vars

\* ------------------------------------------------- chunk download for a save
\* A joiner whose host advertised its chunk positions and answers every
\* GetChunks with the chunks asked for; frames run without end and the update
\* timer comes due again and again.

\* process() starts; the number of frames is not limited here.
SyncBegin ==
  /\ paint.pc = "idle"
  /\ paint.app = "paint"
  /\ paint' = [paint EXCEPT !.pc = "net", !.seen = peer_left,
                            !.out = <<>>, !.yielded = <<>>, !.handled = <<>>]
  /\ UNCHANGED PaintFrame

\* The number of GetChunks packets the host has answered so far.
Answered == NumChunks - peer_left

\* The host's process() handles the next GetChunks (paint.rs 1808-1824), one
\* Chunks packet per batch, and the joiner's next_packet receives it.
SyncAnswer ==
  /\ paint.pc = "net"
  /\ paint.seen = peer_left
  /\ Answered < Len(paint.asked)
  /\ LET bs == Batches(paint.asked[Answered + 1]) IN
     PeerChunkPayload(PaintMate, "Chunks", bs[1])

\* The frame's process_canvas with the update timer due.
SyncTimerDue == \E visible \in SUBSET Positions, save \in BOOLEAN :
                  PaintCanvas(TRUE, visible, save)

\* The paint State of a joiner after the host's ChunkPositions, with an empty
\* canvas; adv is what the host advertised.
InitSync ==
  /\ InitMatchmaker
  /\ InitWhrc
  /\ acceptor = NewAcceptor
  /\ lk = NewLocks
  /\ dice = NewDice
  /\ joiner = NewJoiner
  /\ is_host = FALSE
  /\ is_relayed = TRUE
  /\ peer_room_id = NoRoom
  /\ peer_host = PaintMate
  /\ mates = EmptyMap
  /\ link = "up"
  /\ recv = NoRcv
  /\ sent = <<>>
  /\ message = NoMsg
  /\ greeted = {}
  /\ peer_left = NumChunks
  /\ \E adv \in SUBSET Positions, save \in BOOLEAN :
       paint = [NewPaint EXCEPT !.server_side_chunks = adv, !.save_to_file = save,
                                !.seen = NumChunks]

NextSync ==
  \/ SyncBegin
  \/ SyncAnswer
  \/ PaintQueueEmpty
  \/ PaintMatch
  \/ PaintDrain
  \/ PaintRequest
  \/ \E due \in BOOLEAN, visible \in SUBSET Positions, save \in BOOLEAN :
       PaintCanvas(due, visible, save)

\* Frames follow one another, the host's answers arrive, and the update timer
\* comes due in some frame again and again.
SyncFairness ==
  /\ WF_vars(NextSync)
  /\ SF_vars(SyncAnswer)
  /\ SF_vars(SyncTimerDue)

SpecSync == InitSync /\ [][NextSync]_vars /\ SyncFairness

\* ------------------------------------------------- the receive queue of a frame
\* A frame of process() with the receive queue made explicit: peer.tick()
\* leaves some packets in the queue, and the loop over the messages takes them
\* with try_recv one by one.

\* The packets of the frame's receive queue that next_packet has not taken.
Queued == peer_left - paint.floor

\* process() starts: peer.tick() returns the iterator with q packets queued.
TickBegin ==
  /\ paint.pc = "idle"
  /\ paint.app = "paint"
  /\ paint.left > 0
  /\ \E q \in 0..peer_left :
       paint' = [paint EXCEPT !.pc = "net", !.left = @ - 1, !.seen = peer_left,
                              !.floor = peer_left - q,
                              !.out = <<>>, !.yielded = <<>>, !.handled = <<>>]
  /\ UNCHANGED PaintFrame

\* Messages::next: try_recv returns the packet at the head of the queue.
TickNextPacket ==
  /\ Queued > 0
  /\ \/ PaintNextPacket
     \/ paint.pc = "net" /\ paint.seen = peer_left /\ PeerClientAddress(PaintMate)

\* Messages::next: try_recv finds the queue empty.
TickQueueEmpty ==
  /\ Queued = 0
  /\ PaintQueueEmpty

NextTick ==
  \/ TickBegin
  \/ TickNextPacket
  \/ TickQueueEmpty
  \/ PaintMatch
  \/ PaintDrain
  \/ PaintRequest
  \/ \E due \in BOOLEAN, visible \in Views, save \in BOOLEAN :
       PaintCanvas(due, visible, save)

SpecTick == InitPaint /\ [][NextTick]_vars

\* ------------------------------------------------- chunks nobody asked for
\* A mate pastes an image: whd_process_canvas_custom_image sends the chunks it
\* touched to every mate with send_chunks (paint.rs 359-361), and the session's
\* next_packet receives them as a Chunks packet it has sent no GetChunks for.
PaintCustomImage ==
  /\ paint.pc = "net"
  /\ paint.seen = peer_left
  /\ \E ps \in SUBSET Positions : PeerChunkPayload(PaintMate, "Chunks", ps)

NextSave ==
  \/ PaintBegin
  \/ PaintTickFails
  \/ PaintNextPacket
  \/ PaintCustomImage
  \/ PaintQueueEmpty
  \/ PaintMatch
  \/ PaintDrain
  \/ PaintRequest
  \/ \E due \in BOOLEAN, visible \in Views, save \in BOOLEAN :
       PaintCanvas(due, visible, save)

SpecSave == InitPaint /\ [][NextSave]_vars

\* ------------------------------------------------- a canvas of more chunks than a batch
\* A paint session on a canvas of CHUNK_BATCH + 1 chunks: the position lists
\* of the chunk packets it receives are one position or all of them, and all
\* of the canvas is in view or none of it.
ManyPositions == 1..(CHUNK_BATCH + 1)

BatchNextPacket ==
  /\ paint.pc = "net"
  /\ paint.seen = peer_left
  /\ \E k \in ChunkKinds, ps \in {{1}, ManyPositions} : PeerChunkPayload(PaintMate, k, ps)

InitBatch ==
  /\ InitMatchmaker
  /\ InitWhrc
  /\ acceptor = NewAcceptor
  /\ lk = NewLocks
  /\ dice = NewDice
  /\ joiner = NewJoiner
  /\ is_host \in BOOLEAN
  /\ is_relayed = ~is_host
  /\ peer_room_id = IF is_host THEN 0 ELSE NoRoom
  /\ peer_host = IF is_host THEN None ELSE PaintMate
  /\ mates = EmptyMap
  /\ link = "up"
  /\ recv = NoRcv
  /\ sent = <<>>
  /\ message = NoMsg
  /\ greeted = {}
  /\ peer_left = MaxPaintPackets
  /\ paint = [NewPaint EXCEPT !.left = MaxFrames, !.seen = MaxPaintPackets,
                              !.canvas = IF is_host THEN ManyPositions ELSE {}]

NextBatch ==
  \/ PaintBegin
  \/ BatchNextPacket
  \/ PaintQueueEmpty
  \/ PaintMatch
  \/ PaintDrain
  \/ PaintRequest
  \/ \E due \in BOOLEAN, visible \in {{}, ManyPositions}, save \in BOOLEAN :
       PaintCanvas(due, visible, save)

SpecBatch == InitBatch /\ [][NextBatch]_vars

\* ------------------------------------------------- a session among peers that run this client
\* What the other peers of the room send when they run the same Peer and paint
\* State: ChunkPositions comes from the host only (process() sends it for a
\* Joined that carries an address, which only a host's decode_payload
\* returns), GetChunks goes to the host only (download_chunks), and RoomId is
\* answered before the paint State exists.
ConformNextPacket ==
  /\ paint.pc = "net"
  /\ paint.seen = peer_left
  /\ \/ PeerHello(PaintMate, "ann")
     \/ PeerHiThere(PaintMate, "ann")
     \/ \E v \in Versions : PeerVersion(PaintMate, v)
     \/ PeerPayload(PaintMate, "Stroke")
     \/ \E ps \in ChunkSets : PeerChunkPayload(PaintMate, "Chunks", ps)
     \/ is_host /\ \E ps \in ChunkSets : PeerChunkPayload(PaintMate, "GetChunks", ps)
     \/ ~is_host /\ \E ps \in ChunkSets : PeerChunkPayload(PaintMate, "ChunkPositions", ps)
     \/ PeerDisconnected(PaintMate)
     \/ PeerError(ErrHostDisconnected)

NextConform ==
  \/ PaintBegin
  \/ PaintTickFails
  \/ ConformNextPacket
  \/ PaintQueueEmpty
  \/ PaintMatch
  \/ PaintDrain
  \/ PaintRequest
  \/ \E due \in BOOLEAN, visible \in Views, save \in BOOLEAN :
       PaintCanvas(due, visible, save)

SpecConform == InitPaint /\ [][NextConform]_vars

\* ------------------------------------------------- a client joins the first client's room
\* The first client (the Peer and paint State above) is in a room, as its host
\* or as a member; a second client, at address PaintMate, has sent GetHost for
\* that room.  The second client runs the same next_packet, the broker handles
\* its packets in the order it sent them, and no connection fails.
JoinFrame == <<mmVars, whrcVars, peerVars, paint, acceptor, lk, dice>>

\* The packets of the second client the first has taken from its Remote.
HellosTaken == MaxPaintPackets - peer_left

\* The second client's next_packet, HostAddress(addr): connect_to_host sends
\* RequestRelay(Some(addr)), and Then::SayHello sends the Hello.
JoinerHostAddress ==
  /\ joiner.pc = "asked"
  /\ joiner' = [joiner EXCEPT !.pc = "connected", !.wire = <<"RequestRelay", "Hello">>]
  /\ UNCHANGED JoinFrame

\* The broker's add_relay for the second client: it is put into the room and
\* acknowledged with Relayed(its address, vec![]).
BrokerAddRelay ==
  /\ joiner.wire # <<>>
  /\ Head(joiner.wire) = "RequestRelay"
  /\ joiner' = [joiner EXCEPT !.wire = Tail(@), !.bound = TRUE, !.acks = @ + 1]
  /\ UNCHANGED JoinFrame

\* The broker's relay for Relay(None, Hello) of the second client: Relayed to
\* every other member of its room, the first client among them.
BrokerRelay ==
  /\ joiner.wire # <<>>
  /\ Head(joiner.wire) = "Hello"
  /\ joiner' = [joiner EXCEPT !.wire = Tail(@),
                              !.hellos = IF joiner.bound THEN @ + 1 ELSE @]
  /\ UNCHANGED JoinFrame

\* The second client's next_packet, Relayed(_, payload) with an empty payload:
\* Then::SayHello sends a Hello.
JoinerRelayReady ==
  /\ joiner.acks > 0
  /\ joiner' = [joiner EXCEPT !.acks = @ - 1, !.wire = Append(@, "Hello")]
  /\ UNCHANGED JoinFrame

\* The first client's next_packet takes a Hello of the second client.
JoinHelloArrives ==
  /\ paint.pc = "net"
  /\ paint.seen = peer_left
  /\ HellosTaken < joiner.hellos
  /\ PeerHello(PaintMate, "ann")

\* The first client in its paint State, with one frame to run, which starts
\* at any moment of the join.
InitJoin ==
  /\ InitMatchmaker
  /\ InitWhrc
  /\ acceptor = NewAcceptor
  /\ lk = NewLocks
  /\ dice = NewDice
  /\ joiner = [NewJoiner EXCEPT !.pc = "asked"]
  /\ is_host \in BOOLEAN
  /\ is_relayed = ~is_host
  /\ peer_room_id = IF is_host THEN 0 ELSE NoRoom
  /\ peer_host = IF is_host THEN None ELSE CHOOSE a \in Mates : a # PaintMate
  /\ mates = EmptyMap
  /\ link = "up"
  /\ recv = NoRcv
  /\ sent = <<>>
  /\ message = NoMsg
  /\ greeted = {}
  /\ peer_left = MaxPaintPackets
  /\ \E cv \in SUBSET Positions :
       paint = [NewPaint EXCEPT !.left = 1, !.seen = MaxPaintPackets,
                                !.canvas = IF is_host THEN cv ELSE {}]

NextJoin ==
  \/ JoinerHostAddress
  \/ BrokerAddRelay
  \/ BrokerRelay
  \/ JoinerRelayReady
  \/ JoinHelloArrives
  \/ PaintBegin
  \/ PaintQueueEmpty
  \/ PaintMatch
  \/ PaintDrain
  \/ PaintRequest
  \/ \E due \in BOOLEAN, visible \in Views, save \in BOOLEAN :
       PaintCanvas(due, visible, save)

SpecJoin == InitJoin /\ [][NextJoin]_vars

\* ---------------------------------------------------------------- properties
\* A connection the broker still serves and whose peer has not closed.
Living(d) == thread[d] = "run" /\ sock[d] = "open"

\* The writes of packet p to d that the current handler of c completed.
Delivered(c, d, p) ==
  Cardinality({i \in 1..Len(out[c]) : out[c][i].to = d /\ out[c][i].pkt = p})

\* C1: of the Host requests answered with RoomId, with no disconnect in
\* between, no two were given the same room id.
C1_DistinctRoomIds ==
  \A id \in RoomIds : issued[id] <= 1

\* Two connections hold rooms with different ids, both answered with RoomId.
C1_Witness ==
  \E a, b \in DOMAIN host_rooms :
    /\ a # b
    /\ host_rooms[a] # host_rooms[b]
    /\ issued[host_rooms[a]] = 1
    /\ issued[host_rooms[b]] = 1

\* C2: a room id is a key of rooms if and only if the connection that created
\* the room is still connected: the host of every room is a connection whose
\* handler runs, and the room of every running host is in rooms.
C2_RoomIffHostConnected ==
  /\ \A id \in DOMAIN rooms : thread[rooms[id].host] = "run"
  /\ \A c \in DOMAIN host_rooms : thread[c] = "run" => host_rooms[c] \in DOMAIN rooms

\* C3: a completed fan-out of Relay(None, p) by c has written Relayed(c, p)
\* exactly once to every living member of c's room other than c, and to no
\* other connection.
C3_BroadcastExactlyOnce ==
  \A c \in Conns :
    (pc[c] = "ret" /\ cur[c].t = "Relay" /\ cur[c].a = None /\ loc[c].i >= 1) =>
      \A d \in Conns :
        Delivered(c, d, Pkt("Relayed", c, cur[c].d)) =
          IF d # c /\ d \in Range(loc[c].clients) THEN 1 ELSE 0

\* C4: every Relayed packet written for Relay(Some(a), p) by c is
\* Relayed(c, p), written to the connection with address a, which is a member
\* of c's room and is not c.
C4_TargetedRelay ==
  \A c \in Conns :
    (cur[c].t = "Relay" /\ cur[c].a # None) =>
      \A i \in 1..Len(out[c]) :
        out[c][i].pkt.t = "Relayed" =>
          /\ out[c][i].to = cur[c].a
          /\ out[c][i].to # c
          /\ out[c][i].to \in Range(loc[c].clients)
          /\ out[c][i].pkt = Pkt("Relayed", c, cur[c].d)

\* A fan-out of Relay(Some(a), p) in a room with a third member has completed
\* with one write, to a.
C4_Witness ==
  \E c \in Conns :
    /\ pc[c] = "ret"
    /\ cur[c].t = "Relay"
    /\ cur[c].a \notin {None, c}
    /\ Range(loc[c].clients) \ {c, cur[c].a} # {}
    /\ Len(out[c]) = 1
    /\ out[c][1].to = cur[c].a

\* C5: when the disconnect of a connection c bound as a relay client has been
\* processed, every other living connection bound to the same room has been
\* written exactly one Disconnected(c), and no other connection any.
C5_DisconnectedExactlyOnce ==
  \A c \in Conns :
    (pc[c] = "exit" /\ thread[c] = "closed" /\ loc[c].id # NoRoom) =>
      \A d \in Conns :
        Delivered(c, d, Pkt("Disconnected", c, Empty)) =
          IF /\ d # c
             /\ Living(d)
             /\ d \in DOMAIN relay_clients
             /\ relay_clients[d] = loc[c].id
          THEN 1 ELSE 0

\* C6: once the disconnect of a connection has been processed, no room it
\* created is in rooms, and no GetHost finds one.
C6_HostDisconnectFreesRoom ==
  /\ \A id \in DOMAIN rooms : discCalls[rooms[id].host] = 0
  /\ \A c \in Conns : pc[c] = "join_host" => discCalls[loc[c].host] = 0

\* C7: while no thread holds the matchmaker mutex, every room id that is a
\* value of host_rooms or of relay_clients is a key of rooms.
C7_IndexesReferToRooms ==
  mmOwner = None =>
    /\ \A a \in DOMAIN host_rooms : host_rooms[a] \in DOMAIN rooms
    /\ \A a \in DOMAIN relay_clients : relay_clients[a] \in DOMAIN rooms

\* C8: a handler that has left its read loop, on a zero-length read or on a
\* decode error, has called disconnect exactly once.
C8_DisconnectOnceOnExit ==
  \A c \in Conns : thread[c] \in {"closed", "stopped"} => discCalls[c] = 1

\* C9: no packet is written by a handler that holds the matchmaker mutex.
C9_NoSendUnderMutex ==
  \A c \in Conns : \A i \in 1..Len(out[c]) : ~out[c][i].mm

\* C10: a relay fan-out that has ended leaves the sender's thread running, and
\* has written the Relayed packet to every living member of the room that is
\* not the sender and matches the target.
C10_FanoutSurvivesFailure ==
  \A c \in Conns :
    (pc[c] \in {"ret", "exit"} /\ cur[c].t = "Relay" /\ loc[c].i >= 1) =>
      /\ thread[c] = "run"
      /\ \A d \in Range(loc[c].clients) :
           (Living(d) /\ RelaysTo(d, c, cur[c].a)) =>
             Delivered(c, d, Pkt("Relayed", c, cur[c].d)) >= 1

\* C11: each soft failure (no free room, room not found, host disconnected,
\* not a relay client) is decided without a change of rooms, host_rooms and
\* relay_clients and without a write; its reply to a requester whose peer is
\* connected is exactly one Error packet, written to the requester only, the
\* registry stays as it was, and the handler returns to its read loop.
SoftFailures == {"host_err", "join_err", "add_relay_err", "relay_err_client"}

C11_SoftFailure ==
  [][\A c \in Conns :
       /\ (pc[c] = "read" /\ pc'[c] \in SoftFailures) =>
            (registry' = registry /\ out'[c] = <<>>)
       /\ (pc[c] \in SoftFailures /\ pc'[c] # pc[c] /\ sock[c] = "open") =>
            /\ registry' = registry
            /\ Len(out'[c]) = 1
            /\ out'[c][1].to = c
            /\ out'[c][1].pkt = Pkt("Error", None, ErrorAt[pc[c]])
            /\ \A d \in Conns \ {c} : out'[d] = out[d]
            /\ pc'[c] = "ret"
            /\ thread'[c] = "run"]_vars

\* A Host that found no free room has been answered with the Error packet and
\* its handler is back in the loop.
C11_Witness ==
  \E c \in Conns :
    /\ pc[c] = "ret"
    /\ thread[c] = "run"
    /\ cur[c].t = "Host"
    /\ Len(out[c]) = 1
    /\ out[c][1].to = c
    /\ out[c][1].pkt = Pkt("Error", None, ErrNoFreeRooms)

\* C12: a frame that fails to decode and a packet with a tag that has no
\* handler each end the connection: the handler's thread ends.
C12_BadFrameEndsConnection ==
  \A c \in Conns :
    cur[c].t \in InvalidTags \cup {"malformed"} => pc[c] = "exit"

\* C13: GetHost(id) for a room in rooms, with the peers of the requester and
\* of the room's host connected, writes ClientAddress(requester) to the host
\* and then HostAddress(host) to the requester, and no step of it changes
\* rooms (member lists included), host_rooms or relay_clients.
C13_JoinExchange ==
  [][\A c \in Conns :
       /\ (pc[c] = "read" /\ pc'[c] = "join_host") =>
            /\ registry' = registry
            /\ cur'[c].a \in DOMAIN rooms
            /\ loc'[c].host = rooms[cur'[c].a].host
            /\ out'[c] = <<>>
       /\ (pc[c] = "join_host" /\ pc'[c] # pc[c]
              /\ sock[c] = "open" /\ sock[loc[c].host] = "open") =>
            /\ registry' = registry
            /\ Len(out'[c]) = 1
            /\ out'[c][1].to = loc[c].host
            /\ out'[c][1].pkt = Pkt("ClientAddress", c, Empty)
            /\ pc'[c] = "join_client"
       /\ (pc[c] = "join_client" /\ pc'[c] # pc[c] /\ sock[c] = "open") =>
            /\ registry' = registry
            /\ Len(out'[c]) = 2
            /\ out'[c][1] = out[c][1]
            /\ out'[c][2].to = c
            /\ out'[c][2].pkt = Pkt("HostAddress", loc[c].host, Empty)
            /\ pc'[c] = "ret"]_vars

\* A GetHost for another connection's room has returned after both writes.
C13_Witness ==
  \E c \in Conns :
    /\ pc[c] = "ret"
    /\ cur[c].t = "GetHost"
    /\ loc[c].host \notin {None, c}
    /\ Len(out[c]) = 2
    /\ out[c][1].to = loc[c].host
    /\ out[c][2].to = c

\* C14: a RequestRelay(target) whose resolved host address (the target, or
\* the requester's own address for None) is a key of host_rooms sets
\* relay_clients[requester] to that host's room id and appends the requester
\* to that room's member list, changing nothing else of the registry; the
\* requester, its peer connected, is then written exactly one
\* Relayed(requester, empty payload), and the handler returns.
C14_AddRelay ==
  [][\A c \in Conns :
       /\ (pc[c] = "read" /\ cur'[c].t = "RequestRelay" /\ ~mmPoisoned) =>
            LET host_addr == IF cur'[c].a = None THEN c ELSE cur'[c].a IN
            IF host_addr \in DOMAIN host_rooms
            THEN LET room_id == host_rooms[host_addr] IN
                 /\ pc'[c] = "add_relay_ack"
                 /\ room_id \in DOMAIN rooms
                 /\ relay_clients' = MapPut(relay_clients, c, room_id)
                 /\ rooms' = [rooms EXCEPT ![room_id].clients = Append(@, c)]
                 /\ host_rooms' = host_rooms
                 /\ out'[c] = <<>>
            ELSE pc'[c] = "add_relay_err"
       /\ (pc[c] = "add_relay_ack" /\ pc'[c] # pc[c] /\ sock[c] = "open") =>
            /\ registry' = registry
            /\ Len(out'[c]) = 1
            /\ out'[c][1].to = c
            /\ out'[c][1].pkt = Pkt("Relayed", c, Empty)
            /\ pc'[c] = "ret"]_vars

\* A RequestRelay naming another connection as host has been acknowledged: the
\* requester is bound to the host's room and is the last entry of its list.
C14_Witness ==
  \E c \in Conns :
    /\ pc[c] = "ret"
    /\ cur[c].t = "RequestRelay"
    /\ cur[c].a \notin {None, c}
    /\ cur[c].a \in DOMAIN host_rooms
    /\ c \in DOMAIN relay_clients
    /\ relay_clients[c] = host_rooms[cur[c].a]
    /\ rooms[relay_clients[c]].clients # <<>>
    /\ rooms[relay_clients[c]].clients[Len(rooms[relay_clients[c]].clients)] = c
    /\ Len(out[c]) = 1
    /\ out[c][1].pkt = Pkt("Relayed", c, Empty)

\* C18: a WallhackDHostWithCustomRoomId request is handled like Host: when
\* its handler returns, the requester hosts a room of rooms, host_rooms holds
\* that room's id for it, and it has been written RoomId of that id.
C18_CustomIdHost ==
  \A c \in Conns :
    (pc[c] = "ret" /\ cur[c].t = "WallhackDHostWithCustomRoomId" /\ sock[c] = "open") =>
      /\ c \in DOMAIN host_rooms
      /\ host_rooms[c] \in DOMAIN rooms
      /\ rooms[host_rooms[c]].host = c
      /\ Len(out[c]) = 1
      /\ out[c][1].to = c
      /\ out[c][1].pkt = Pkt("RoomId", host_rooms[c], Empty)

C16_EndToEnd ==
  \A c \in Conns :
    pc[c] = "ret" =>
      /\ cur[c].t = "Host" =>
           /\ c = E2EH
           /\ Len(out[c]) = 1
           /\ Delivered(c, c, Pkt("RoomId", host_rooms[c], Empty)) = 1
      /\ cur[c].t = "GetHost" =>
           /\ c = E2EA
           /\ cur[c].a = host_rooms[E2EH]
           /\ Len(out[c]) = 2
           /\ Delivered(c, E2EH, Pkt("ClientAddress", c, Empty)) = 1
           /\ Delivered(c, c, Pkt("HostAddress", E2EH, Empty)) = 1
      /\ cur[c].t = "RequestRelay" =>
           /\ c \in DOMAIN relay_clients
           /\ relay_clients[c] = host_rooms[E2EH]
           /\ c \in Range(rooms[host_rooms[E2EH]].clients)
      /\ cur[c].t = "Relay" =>
           /\ DOMAIN relay_clients = {E2EH, E2EA}
           /\ Range(rooms[host_rooms[E2EH]].clients) = {E2EH, E2EA}
           /\ Len(out[c]) = 1
           /\ \A d \in Conns :
                Delivered(c, d, Pkt("Relayed", c, cur[c].d)) =
                  IF d \in {E2EH, E2EA} \ {c} THEN 1 ELSE 0

\* The client's Relay(None, p), the last frame of the session, has been
\* written to the host only.
C16_Witness ==
  /\ DOMAIN host_rooms # {}
  /\ pc[E2EA] = "ret"
  /\ cur[E2EA].t = "Relay"
  /\ E2EADone = 3
  /\ Len(out[E2EA]) = 1
  /\ out[E2EA][1].to = E2EH
  /\ out[E2EA][1].pkt = Pkt("Relayed", E2EA, cur[E2EA].d)

\* C17: a host-with-custom-id request for a room id that is already registered
\* is answered with an Error and leaves the relay server's state (rooms, room
\* membership, host assignment and allocated peer ids) as it was.
C17_CustomIdInUse ==
  [][(whrc_calls' # whrc_calls /\ host_id(whrc_last'.room_id) # None)
       => /\ whrc_last'.reply.t = "Error"
          /\ UNCHANGED <<whrc_peers, occupied_room_ids, room_clients, room_hosts>>]_vars

\* C19: a peer that decodes Hello(nickname) relayed from S, with its sends
\* going out, sends HiThere(own nickname) and then Version(PROTOCOL_VERSION),
\* both to S only, records S as a mate with that nickname, and returns
\* Joined(nickname, Some(S)) if it is the host and Joined(nickname, None)
\* otherwise.
C19_HelloReply ==
  [][(peer_left' # peer_left /\ recv'.k = "Hello" /\ link' = "up")
       => /\ sent' = <<Relay(recv'.a, "HiThere", OwnNick),
                       Relay(recv'.a, "Version", PROTOCOL_VERSION)>>
          /\ mates' = MapPut(mates, recv'.a, recv'.n)
          /\ message' = Msg("Joined", recv'.n, IF is_host THEN recv'.a ELSE None)]_vars

C19_Witness ==
  /\ is_host
  /\ link = "up"
  /\ recv.k = "Hello"
  /\ Len(sent) = 2
  /\ recv.a \in DOMAIN mates
  /\ message = Msg("Joined", recv.n, recv.a)

\* C20: while the peer's sends go out, A is a key of mates exactly when a
\* Hello or HiThere from A was decoded since the last Disconnected(A), and in
\* any case only then; HiThere sends no packet; Disconnected(A) for a known
\* mate removes it and returns Left(its nickname).
C20_Mates ==
  [][/\ DOMAIN mates' \subseteq greeted'
     /\ (link' = "up" => DOMAIN mates' = greeted')
     /\ (peer_left' # peer_left /\ recv'.k = "HiThere" => sent' = <<>>)
     /\ (peer_left' # peer_left /\ recv'.t = "Disconnected" /\ recv'.a \in DOMAIN mates
           => /\ recv'.a \notin DOMAIN mates'
              /\ message' = Msg("Left", mates[recv'.a], None))]_vars

C20_Witness ==
  /\ link = "up"
  /\ recv.t = "Disconnected"
  /\ message.t = "Left"
  /\ recv.a \notin DOMAIN mates
  /\ mates # EmptyMap
  /\ DOMAIN mates = greeted

\* C21: in every reachable state of a paint session, whatever ChunkPositions
\* and Chunks messages arrive and whenever the timer ticks, requested_chunks
\* is a subset of server_side_chunks.
C21_RequestedWithinAdvertised ==
  paint.pc # "panic" => paint.requested_chunks \subseteq paint.server_side_chunks

\* C22: a joiner whose host advertised N positions and answers every GetChunks:
\* requested_chunks and downloaded_chunks never hold more than the N advertised
\* positions, a save happens only with all N positions requested and
\* downloaded, and a pending first save is eventually carried out.
C22_SyncSafe ==
  LET adv == paint.server_side_chunks IN
  /\ paint.requested_chunks \subseteq adv
  /\ paint.downloaded_chunks \subseteq paint.requested_chunks
  /\ paint.saved # NoSave =>
       /\ paint.saved.server = adv
       /\ paint.saved.downloaded = adv
       /\ paint.requested_chunks = adv

C22_ChunkSync ==
  /\ []C22_SyncSafe
  /\ ((paint.save_to_file /\ paint.saved = NoSave) ~> paint.saved # NoSave)

\* A save carried out after every advertised chunk came from the host.
C22_Witness ==
  /\ paint.saved # NoSave
  /\ ~paint.save_to_file
  /\ Cardinality(paint.saved.downloaded) = NumChunks
  /\ paint.asked # <<>>
  /\ Answered = Len(paint.asked)

\* The Joined and GetChunks messages among those a frame's iterator returned.
C23_Deferrable ==
  SelectSeq(paint.yielded, LAMBDA m : m.t \in {"Joined", "GetChunks"})

\* C23: once process() is past its loop over the deferred queue, the queue is
\* empty and the messages handled from it are exactly the Joined and GetChunks
\* messages peer.tick() yielded in this call, each once and in that order;
\* while the network loop runs, the queue holds exactly those received so far.
C23_DeferredOnceInOrder ==
  /\ paint.pc = "net" =>
       /\ paint.deferred_message_queue = C23_Deferrable
       /\ paint.handled = <<>>
  /\ paint.pc = "drain" =>
       paint.handled \o paint.deferred_message_queue = C23_Deferrable
  /\ paint.pc \in {"request", "canvas", "idle"} =>
       /\ paint.deferred_message_queue = <<>>
       /\ paint.handled = C23_Deferrable

\* A frame in which a Joined and then a GetChunks were yielded, both handled.
C23_Witness ==
  /\ paint.pc = "request"
  /\ Len(paint.handled) = 2
  /\ paint.handled[1].t = "Joined"
  /\ paint.handled[2].t = "GetChunks"
  /\ Len(paint.out) = 2

\* C24: a Version packet with another version than the peer's own makes
\* next_packet return Message::Error("Client is too old."), process() keeps a
\* yielded Error in self.error, and the frame then ends in the lobby showing
\* self.error; a Version packet with the peer's own version yields no message,
\* hands no packet to the Remote and leaves the peer's state as it was.
C24_VersionCheck ==
  [][/\ (peer_left' < peer_left /\ recv'.k = "Version") =>
          IF recv'.n = PROTOCOL_VERSION
          THEN /\ message'.t = ""
               /\ sent' = <<>>
               /\ UNCHANGED <<is_host, is_relayed, peer_room_id, peer_host, mates,
                              greeted, link>>
          ELSE message' = Msg("Error", ErrTooOld, None)
     /\ (paint.pc = "net" /\ paint.seen # peer_left /\ message.t = "Error") =>
          /\ paint'.error = message.n
          /\ paint'.pc = "net"
     /\ (paint.pc = "canvas" /\ paint.error # NoError) =>
          /\ paint'.app = "lobby"
          /\ paint'.lobby = paint.error
     /\ paint.app = "lobby" => UNCHANGED vars
    ]_vars

\* The lobby showing "Client is too old." after an incompatible Version.
C24_Witness ==
  /\ paint.app = "lobby"
  /\ paint.lobby = ErrTooOld

\* C25: a paint session whose peer received the broker's Error packet for a
\* soft failure (host disconnected, not a relay client) stays in the paint
\* state: self.error holding such a text never comes with the lobby.
C25_SoftErrorKeepsSession ==
  paint.error \in {ErrHostDisconnected, ErrNotRelayClient} => paint.app = "paint"

\* C26: whenever a Relayed(A, p) with a payload has been written to connection
\* B, A and B are bound to the same room: relay_clients gives both the same
\* room id, the room is in the registry with a living host, and both are
\* members of it.
C26_RelayStaysInRoom ==
  \A c \in Conns : \A i \in 1..Len(out[c]) :
    LET w == out[c][i] IN
    (w.pkt.t = "Relayed" /\ w.pkt.d # Empty) =>
      /\ w.pkt.a \in DOMAIN relay_clients
      /\ w.to \in DOMAIN relay_clients
      /\ relay_clients[w.pkt.a] = relay_clients[w.to]
      /\ relay_clients[w.to] \in DOMAIN rooms
      /\ thread[rooms[relay_clients[w.to]].host] = "run"
      /\ {w.pkt.a, w.to} \subseteq Range(rooms[relay_clients[w.to]].clients)

\* C27: a relay fan-out that has ended, with a member other than the host that
\* passed the prune and whose handler thread has ended since, the host still
\* served and no other member's peer gone, leaves the sender's thread running
\* and has written the Relayed packet to every living member that is not the
\* sender and matches the target.
C27_FanoutSkipsEndedMember ==
  \A c \in Conns :
    (/\ pc[c] \in {"ret", "exit"}
     /\ cur[c].t = "Relay"
     /\ loc[c].i >= 1
     /\ thread[loc[c].host] = "run"
     /\ \E d \in Range(loc[c].clients) : thread[d] # "run" /\ d # loc[c].host
     /\ \A d \in Range(loc[c].clients) : thread[d] = "run" => sock[d] = "open") =>
      /\ thread[c] = "run"
      /\ \A d \in Range(loc[c].clients) :
           (Living(d) /\ RelaysTo(d, c, cur[c].a)) =>
             Delivered(c, d, Pkt("Relayed", c, cur[c].d)) >= 1

\* C28: a failure inside host, join, add_relay, relay or disconnect comes back
\* as an error value: no handler thread ends by a panic while handling such a
\* request, and the matchmaker mutex is never poisoned, so that later requests
\* can lock it.
C28_FailureIsReturned ==
  /\ ~mmPoisoned
  /\ \A c \in Conns :
       (pc[c] = "exit" /\ cur[c].t \in {"Host", "GetHost", "RequestRelay", "Relay", "eof"}) =>
         thread[c] # "panic"

\* C29: a connection that is established and has sent a well-formed handshake
\* request is eventually served by a handler thread of its own, whatever the
\* peers of the other connections do with their handshakes.
C29_HandshakeDoesNotBlock ==
  \A c \in Conns :
    (acceptor.conn[c] = "queued" /\ acceptor.hs[c] = "good") ~> (thread[c] = "run")

\* The thread of c is in lock() on a mutex that thread d holds.
C30_WaitsFor(c, d) ==
  /\ lk.prog[c] # <<>>
  /\ Head(lk.prog[c]).a = "acq"
  /\ Head(lk.prog[c]).l \in lk.held[d]

\* C30: a thread that calls lock() on the matchmaker mutex holds no mutex, one
\* that calls lock() on a room mutex holds the matchmaker mutex and no
\* websocket mutex, one that calls lock() on a websocket mutex holds no other
\* websocket mutex; and there is no set of threads each of which waits for a
\* mutex held by a thread of the set.
C30_LockOrder ==
  /\ \A c \in Conns :
       (lk.prog[c] # <<>> /\ Head(lk.prog[c]).a = "acq") =>
         LET k == Head(lk.prog[c]).l.k
             kinds == {l.k : l \in lk.held[c]} IN
         /\ k = "mm" => kinds = {}
         /\ k = "room" => kinds = {"mm"}
         /\ k = "ws" => "ws" \notin kinds
  /\ \A S \in SUBSET Conns :
       S # {} => \E c \in S : \A d \in S : ~C30_WaitsFor(c, d)

\* A thread in join or disconnect holds the matchmaker and the room mutex and
\* waits for the websocket of a connection whose thread is reading.
C30_Witness ==
  \E c, d \in Conns :
    /\ c # d
    /\ {l.k : l \in lk.held[c]} = {"mm", "room"}
    /\ C30_WaitsFor(c, d)
    /\ lk.held[d] = {WsMutex(d)}

\* C31: when relay() has completed its fan-out for a room that is still in the
\* registry, the member list the registry stores for that room holds no
\* connection that was dead at the prune: every member stored is one the
\* prune kept.
C31_RegistryPruned ==
  \A c \in Conns :
    (/\ pc[c] = "ret"
     /\ cur[c].t = "Relay"
     /\ loc[c].i > Len(loc[c].clients)
     /\ loc[c].i >= 1
     /\ loc[c].id \in DOMAIN rooms) =>
      Range(rooms[loc[c].id].clients) \subseteq Range(loc[c].clients)

\* C32: a connection that was bound to the room of a host that has disconnected
\* and has not bound again since (it is a member of no room in the registry):
\* a Relay it sends, with its peer connected, is answered with the one Error
\* packet 'The host seems to have disconnected', written to the sender, and no
\* Relayed packet is written to any connection.
C32_RelayAfterHostLeft ==
  \A c \in Conns :
    (/\ pc[c] \in {"ret", "exit"}
     /\ cur[c].t = "Relay"
     /\ sock[c] = "open"
     /\ c \in DOMAIN relay_clients
     /\ \A r \in DOMAIN rooms : c \notin Range(rooms[r].clients)) =>
      out[c] = <<[to |-> c, pkt |-> Pkt("Error", None, ErrHostDisconnected), mm |-> TRUE]>>

\* C33: find_free_room_id makes up to 50 draws: when it returns None it has
\* made 50 draws, each of which hit the id of an existing room, and when it
\* returns Some(id), id is not a key of rooms.
C33_FiftyDraws ==
  dice.pc = "done" =>
    /\ dice.draws <= 50
    /\ dice.result = NoRoom => (dice.draws = 50 /\ DOMAIN rooms # {})
    /\ dice.result # NoRoom => dice.result \notin DOMAIN rooms

\* C34: every packet that is in the receive queue when the iteration over the
\* frame's messages starts is processed in that frame, whatever its type: when
\* the loop over the messages has ended, none of them is left in the queue.
C34_TickDrainsQueue ==
  paint.pc = "drain" => Queued = 0

\* C36: every Hello a peer sends is addressed to the host address it knows: it
\* is a broadcast (target None) only while the peer has received no
\* HostAddress, and after HostAddress(addr) it goes to addr.
C36_HelloTarget ==
  [][peer_left' # peer_left =>
       \A i \in 1..Len(sent') :
         (sent'[i].mm = "Relay" /\ sent'[i].k = "Hello") => sent'[i].to = peer_host']_vars

\* C35: for a peer that joins a room, a peer already in the room emits exactly
\* one Joined message for it, and the host sends it exactly one ChunkPositions
\* packet (a member that is not the host sends none): so it is when the join
\* is over, everything the joiner sent has been relayed and taken, and the
\* frame that took it has ended.
C35_OneJoinedPerJoin ==
  (/\ joiner.pc = "connected"
   /\ joiner.wire = <<>>
   /\ joiner.acks = 0
   /\ HellosTaken = joiner.hellos
   /\ paint.pc = "idle"
   /\ paint.left = 0
   /\ link = "up") =>
    /\ Cardinality({i \in 1..Len(paint.yielded) : paint.yielded[i].t = "Joined"}) = 1
    /\ Cardinality({i \in 1..Len(paint.out) :
                      paint.out[i].k = "ChunkPositions" /\ paint.out[i].to = PaintMate})
         = (IF is_host THEN 1 ELSE 0)

\* C37: a pending save writes the canvas only when every position the host
\* advertised has been downloaded: in the state the save was made in,
\* server_side_chunks is a subset of downloaded_chunks (stated for a session
\* whose connection to the matchmaker works).
C37_SaveHasEveryChunk ==
  (paint.saved # NoSave /\ link = "up") =>
    paint.saved.server \subseteq paint.saved.downloaded

\* What C38 says of every state: no coordinate waits in needed_chunks that is
\* in requested_chunks already, and no coordinate was carried by two of the
\* GetChunks packets sent.
C38_Once ==
  /\ paint.needed_chunks \cap paint.requested_chunks = {}
  /\ \A i, j \in 1..Len(paint.asked) : i # j => paint.asked[i] \cap paint.asked[j] = {}
  /\ \A i \in 1..Len(paint.asked) : paint.asked[i] \subseteq paint.requested_chunks

\* C38: within one session no element is ever removed from requested_chunks
\* or downloaded_chunks, a coordinate that is in requested_chunks is never
\* inserted into needed_chunks again, and each coordinate is sent in a
\* GetChunks at most once.
C38_ChunksMoveForward ==
  /\ []C38_Once
  /\ [][/\ paint.requested_chunks \subseteq paint'.requested_chunks
        /\ paint.downloaded_chunks \subseteq paint'.downloaded_chunks
        /\ (paint'.needed_chunks \ paint.needed_chunks) \cap paint.requested_chunks = {}]_vars

\* A session that has requested and been sent chunks, at the end of a frame
\* whose timer found nothing more to ask for.
C38_Witness ==
  /\ paint.pc = "idle"
  /\ paint.left = 0
  /\ Len(paint.asked) = 1
  /\ paint.asked[1] = Positions
  /\ paint.requested_chunks = Positions
  /\ paint.downloaded_chunks # {}
  /\ paint.needed_chunks = {}

\* C39: chunk transfer is batched in both directions: no GetChunks packet a
\* client sends and no Chunks packet a host sends carries more than
\* CHUNK_BATCH (32) positions.
C39_Batched ==
  \A i \in 1..Len(paint.out) :
    paint.out[i].k \in {"GetChunks", "Chunks"} =>
      Cardinality(paint.out[i].ps) <= CHUNK_BATCH

\* C40: among peers that run this client, download_chunks is only called on a
\* peer that knows its host: a hosting peer (host = None) never has an
\* advertised or a needed chunk, a frame that has chunks to request finds the
\* host address set, and the assertion in download_chunks never fails.
C40_HostKnownAtDownload ==
  /\ paint.pc # "panic"
  /\ is_host => (peer_host = None /\ paint.server_side_chunks = {} /\ paint.needed_chunks = {}
                 /\ paint.asked = <<>>)
  /\ paint.needed_chunks # {} => peer_host # None
  /\ \A i \in 1..Len(paint.out) : paint.out[i].k = "GetChunks" => paint.out[i].to = peer_host

\* A joiner has called download_chunks and the GetChunks went to its host.
C40_Witness ==
  /\ ~is_host
  /\ paint.pc = "canvas"
  /\ Len(paint.asked) = 1
  /\ paint.out = <<ChunkRelay(peer_host, "GetChunks", paint.asked[1])>>
  /\ paint.asked[1] # {}
====
